---- MODULE Spec2Model ----
(***************************************************************************)
(* Polling watchers of SyntraWallet: OuterEventWatcher, TransactionWatcher, *)
(* BalanceWatcher, BalancePoller, their retrying fetch loops and            *)
(* WebhookSendout.send, as state machines translated from the TypeScript.   *)
(*                                                                          *)
(* Every class is one record variable holding the instance's fields under  *)
(* their source names, plus an observer variable (suffix Obs) that records *)
(* what the instance emitted.  A promise that is awaiting the network is a *)
(* counter or a record of the continuation; the code that runs after the   *)
(* await up to the next await is one action, because JavaScript runs it    *)
(* without interleaving.                                                    *)
(***************************************************************************)
EXTENDS Integers, Sequences, FiniteSets, TLC

VARIABLES
  oew, oewObs,   \* an OuterEventWatcher and what it emitted
  tw, twObs,     \* a TransactionWatcher and what it emitted
  bw,            \* a BalanceWatcher (options variant)
  bp,            \* a BalancePoller
  balObs,        \* what the one of the two under observation fetched and notified
  rl,            \* one call of a retrying fetch loop
  ws,            \* one call of WebhookSendout.send
  sbw,           \* a BalanceWatcher (src/watchers/BalanceWatcher.ts)
  bt, btObs,     \* a BalanceTracker, its provider and how its polls ended
  ms,            \* a seen map of TransactionWatcher under markSeen calls
  tbw, tbwObs,   \* a TokenBirthWatcher, the chain it reads and the births it emitted
  pw, pwObs,     \* a PriceWatcher and the prices it fetched
  bs, bsObs,     \* a BalanceService and how its last fetch settled
  am, amObs,     \* an AlertManager and the alerts it let fire
  mc, mcObs,     \* a MetricsCache and the keys its last insert touched
  ac             \* one AgentCore.runWithMeta call

vars == <<oew, oewObs, tw, twObs, bw, bp, balObs, rl, ws, sbw, bt, btObs, ms, tbw, tbwObs, pw, pwObs, bs, bsObs, am, amObs, mc, mcObs, ac>>

(***************************************************************************)
(* Bounds of the model.                                                     *)
(***************************************************************************)
\* this.maxSeenIds of OuterEventWatcher.  The constructor keeps it >= 100;
\* the model runs the same eviction code with a small capacity.
MaxSeenIds == 2
\* this.maxSeenPerAddress of TransactionWatcher, kept >= 100 by the
\* constructor and likewise run small.
MaxSeenPerAddress == 1
\* Event timestamps (already in milliseconds) are 1..MaxTs.
MaxTs == 2
\* Longest array a provider returns in one response.
MaxBatch == 2
\* Most tick bodies that may be awaiting their fetch at once.
MaxInFlight == 2
\* Most listeners start() registers for one event.
MaxListeners == 2
\* Largest value of the retries option.
MaxRetries == 2
\* this.concurrency of BalanceWatcher (5 by default, at least 1).
Concurrency == 1

\* Optional values (undefined | x) are sequences of length <= 1.
None == <<>>
Some(x) == <<x>>

Max(a, b) == IF a >= b THEN a ELSE b
Min(a, b) == IF a <= b THEN a ELSE b

Range(s) == {s[i] : i \in DOMAIN s}

\* Array.prototype.shift: the array without its first element.
Shift(s) == SubSeq(s, 2, Len(s))

(***************************************************************************)
(* OuterEventWatcher (EventEmitter variant, src/outer/OuterDataProcessor.ts)*)
(***************************************************************************)
\* Event ids: one more than the capacity, so that an eviction can happen.
\* Ids are strings in the code; EmptyId stands for the empty string, which
\* sanitizeEvent accepts and which is the one falsy id.
EmptyId == 0
Ids == EmptyId..MaxSeenIds
Truthy(id) == id # EmptyId
Stamps == 1..MaxTs
\* Longest observed emission log: an id, MaxSeenIds others, the id again.
MaxEmit == MaxSeenIds + 2

\* The provider's catalogue: event id i carries timestamp TsOf(i), in
\* milliseconds.  Timestamps are not monotone in the id and have ties.
TsOf(id) == 1 + ((id + 1) % MaxTs)
OuterEvents == {[id |-> i, timestamp |-> TsOf(i)] : i \in Ids}
\* An item of the response array: an event, or something sanitizeEvent rejects.
Invalid == [id |-> -1, timestamp |-> 0]
\* Response arrays: up to MaxBatch items in any order, repeats allowed, with
\* at most one rejected item (rejected items only shorten the array).
EventSeqs(n) == UNION {[1..k -> OuterEvents] : k \in 0..n}
RawBatches ==
  EventSeqs(MaxBatch) \cup {Append(b, Invalid) : b \in EventSeqs(MaxBatch - 1)}

\* sanitizeEvent: null for an item without string id / finite timestamp.
sanitizeEvent(x) == IF x \in OuterEvents THEN Some(x) ELSE None

\* fetchEvents, after getWithRetry returned an array: keep what sanitizeEvent accepts.
RECURSIVE SanitizeAll(_)
SanitizeAll(data) ==
  IF data = <<>> THEN <<>>
  ELSE sanitizeEvent(Head(data)) \o SanitizeAll(Tail(data))

\* events.sort((a, b) => a.timestamp - b.timestamp): stable, ascending.
RECURSIVE InsertByTs(_, _)
InsertByTs(sorted, e) ==
  IF sorted = <<>> THEN <<e>>
  ELSE IF Head(sorted).timestamp <= e.timestamp
       THEN <<Head(sorted)>> \o InsertByTs(Tail(sorted), e)
       ELSE <<e>> \o sorted

RECURSIVE SortByTs(_)
SortByTs(events) ==
  IF events = <<>> THEN <<>>
  ELSE InsertByTs(SortByTs(SubSeq(events, 1, Len(events) - 1)), events[Len(events)])

\* A mark that evicts as soon as the list is full, one entry too early.
MarkSeenEarly(s, id) ==
  LET pushed == Append(s.order, id) IN
  IF Len(pushed) >= MaxSeenIds
  THEN [s EXCEPT !.order = Shift(pushed),
                 !.seen = IF Truthy(Head(pushed))
                          THEN (s.seen \cup {id}) \ {Head(pushed)}
                          ELSE s.seen \cup {id}]
  ELSE [s EXCEPT !.order = pushed, !.seen = s.seen \cup {id}]

\* markSeen: add to the set and the order list; beyond capacity shift the
\* oldest id off the list and, `if (drop)`, delete it from the set.
MarkSeen(s, id) ==
  LET pushed == Append(s.order, id) IN
  IF Len(pushed) > MaxSeenIds
  THEN [s EXCEPT !.order = Shift(pushed),
                 !.seen = IF Truthy(Head(pushed))
                          THEN (s.seen \cup {id}) \ {Head(pushed)}
                          ELSE s.seen \cup {id}]
  ELSE [s EXCEPT !.order = pushed, !.seen = s.seen \cup {id}]

\* A cursor that takes the timestamp of every emitted event.
AdvanceCursorAlways(cur, ts) == Some(ts)

\* "Advance cursor": only from undefined or to a later timestamp.
AdvanceCursor(cur, ts) == IF cur = None \/ ts > cur[1] THEN Some(ts) ELSE cur

\* The for loop of tick over the sorted events.  c is the loop's state: the
\* watcher w, the observer o, the number n of emits made so far in this batch.
\* throwAt = k > 0: a listener throws during the k-th emit of the batch, which
\* ends the loop (the catch block of tick runs next) with the events after
\* it unprocessed.
RECURSIVE TickLoop(_, _, _)
TickLoop(events, c, throwAt) ==
  IF events = <<>> THEN c
  ELSE LET evt == Head(events) IN
       IF evt.id \in c.w.seen
       THEN TickLoop(Tail(events), [c EXCEPT !.o.deduped = TRUE], throwAt)
       ELSE LET marked == MarkSeen(c.w, evt.id)
                emitted == [c EXCEPT !.w = marked,
                                     !.o.emitted = Append(@, evt.id),
                                     !.n = @ + 1]
            IN IF emitted.n = throwAt
               THEN [emitted EXCEPT !.o.cutShort =
                       @ \/ \E i \in DOMAIN Tail(events) :
                               Tail(events)[i].id \notin marked.seen]
               ELSE TickLoop(Tail(events),
                      [emitted EXCEPT !.w.lastTimestamp =
                          AdvanceCursor(@, evt.timestamp)],
                      throwAt)

\* The synchronous head of tick(): return when not running or already
\* ticking, else raise the flag and start fetchEvents(this.lastTimestamp).
TickStarts(w) == w.isRunning /\ ~w.ticking
TickHead(w) ==
  IF TickStarts(w) THEN [w EXCEPT !.ticking = TRUE, !.fetching = @ + 1] ELSE w

\* The state a constructor call leaves, for the given options.
\* The options are at their defaults: skipBackfillOnFirstRun and
\* immediateFirstTick are both true.
skipBackfillOnFirstRun == TRUE
immediateFirstTick == TRUE

\* The state the constructor leaves; fetching counts the tick bodies that
\* are awaiting fetchEvents, eventListeners the "event" listeners start()
\* registered.
OEWNew ==
  [seen |-> {}, order |-> <<>>, intervalId |-> FALSE, isRunning |-> FALSE,
   ticking |-> FALSE, lastTimestamp |-> None, fetching |-> 0,
   eventListeners |-> 0]

\* emitted: the ids of the "event" emissions since the last reset(), oldest
\* first; deduped: a fetched id was skipped as already seen since then;
\* cutShort: a throwing listener ended a batch that still held an unseen event;
\* lastFailed: the tick that ended last had its fetch fail; initialCursor:
\* the "now" start() gave the cursor, None when it has not since the last
\* reset(); invoked: the number of calls of start()'s onEvent that the
\* latest "event" emission made, None before the first one.
OEWObsNew ==
  [emitted |-> <<>>, deduped |-> FALSE, cutShort |-> FALSE, lastFailed |-> FALSE,
   initialCursor |-> None, invoked |-> None]

\* start(onEvent): no-op when running; else register onEvent when one is
\* passed, set the cursor, run the first tick, arm the timer.
OEWStartCall(onEvent) ==
  /\ ~oew.isRunning
  /\ onEvent => oew.eventListeners < MaxListeners
  /\ \E now \in Stamps :
       LET cur == IF skipBackfillOnFirstRun /\ oew.lastTimestamp = None
                  THEN Some(now) ELSE oew.lastTimestamp
           run == [oew EXCEPT !.lastTimestamp = cur, !.isRunning = TRUE,
                              !.eventListeners = IF onEvent THEN @ + 1 ELSE @]
           first == IF immediateFirstTick THEN TickHead(run) ELSE run
       IN /\ first.fetching <= MaxInFlight
          /\ oew' = [first EXCEPT !.intervalId = TRUE]
          /\ oewObs' = [oewObs EXCEPT !.initialCursor =
                          IF skipBackfillOnFirstRun /\ oew.lastTimestamp = None
                          THEN Some(now) ELSE @]

\* start()
OEWStart ==
  /\ OEWStartCall(FALSE)
  /\ UNCHANGED <<tw, twObs, rl, ws, bw, bp, balObs, sbw, bt, btObs, ms, tbw, tbwObs, pw, pwObs, bs, bsObs, am, amObs, mc, mcObs, ac>>

\* start(onEvent)
OEWStartOnEvent ==
  /\ OEWStartCall(TRUE)
  /\ UNCHANGED <<tw, twObs, rl, ws, bw, bp, balObs, sbw, bt, btObs, ms, tbw, tbwObs, pw, pwObs, bs, bsObs, am, amObs, mc, mcObs, ac>>

\* A fire of the setInterval timer: run() calls tick().
OEWTimerFire ==
  /\ oew.intervalId
  /\ TickHead(oew).fetching <= MaxInFlight
  /\ oew' = TickHead(oew)
  /\ UNCHANGED <<oewObs, tw, twObs, rl, ws, bw, bp, balObs, sbw, bt, btObs, ms, tbw, tbwObs, pw, pwObs, bs, bsObs, am, amObs, mc, mcObs, ac>>

\* stop()
OEWStop ==
  /\ oew' = [oew EXCEPT !.intervalId = FALSE, !.isRunning = FALSE, !.ticking = FALSE]
  /\ UNCHANGED <<oewObs, tw, twObs, rl, ws, bw, bp, balObs, sbw, bt, btObs, ms, tbw, tbwObs, pw, pwObs, bs, bsObs, am, amObs, mc, mcObs, ac>>

\* reset(); the observer starts a new epoch.
OEWReset ==
  /\ oew' = [oew EXCEPT !.seen = {}, !.order = <<>>, !.lastTimestamp = None]
  /\ oewObs' = [oewObs EXCEPT !.emitted = <<>>, !.deduped = FALSE,
                              !.initialCursor = None]
  /\ UNCHANGED <<tw, twObs, rl, ws, bw, bp, balObs, sbw, bt, btObs, ms, tbw, tbwObs, pw, pwObs, bs, bsObs, am, amObs, mc, mcObs, ac>>

\* A failed tick that also forgets the seen ids.
OEWFetchFailForgets ==
  /\ oew.fetching > 0
  /\ oew' = [oew EXCEPT !.fetching = @ - 1, !.ticking = FALSE,
                        !.seen = {}, !.order = <<>>]
  /\ oewObs' = [oewObs EXCEPT !.lastFailed = TRUE]
  /\ UNCHANGED <<tw, twObs, rl, ws, bw, bp, balObs, sbw, bt, btObs, ms, tbw, tbwObs, pw, pwObs, bs, bsObs, am, amObs, mc, mcObs, ac>>

\* fetchEvents rejected (getWithRetry threw, or the body was no array):
\* catch emits "error", finally lowers the flag.
OEWFetchFail ==
  /\ oew.fetching > 0
  /\ oew' = [oew EXCEPT !.fetching = @ - 1, !.ticking = FALSE]
  /\ oewObs' = [oewObs EXCEPT !.lastFailed = TRUE]
  /\ UNCHANGED <<tw, twObs, rl, ws, bw, bp, balObs, sbw, bt, btObs, ms, tbw, tbwObs, pw, pwObs, bs, bsObs, am, amObs, mc, mcObs, ac>>

\* What the for loop of tick can leave, over the sanitized and sorted
\* responses of the provider and the emit at which a listener throws (none
\* when throwAt is 0 or exceeds the emits of the batch).
SortedBatches == {SortByTs(SanitizeAll(data)) : data \in RawBatches}
TickOutcomes(w, o) ==
  {TickLoop(events, [w |-> w, o |-> o, n |-> 0], throwAt) :
     events \in SortedBatches, throwAt \in 0..MaxBatch}

\* fetchEvents resolved with data: the rest of tick() runs to its end.
OEWFetchOk ==
  /\ oew.fetching > 0
  /\ \E out \in TickOutcomes(oew, oewObs) :
       /\ Len(out.o.emitted) <= MaxEmit
       /\ oew' = [out.w EXCEPT !.fetching = @ - 1, !.ticking = FALSE]
       /\ oewObs' = [out.o EXCEPT
            !.lastFailed = FALSE,
            !.invoked = IF oew.eventListeners > 0
                           /\ Len(out.o.emitted) > Len(oewObs.emitted)
                        THEN Some(oew.eventListeners) ELSE @]
  /\ UNCHANGED <<tw, twObs, rl, ws, bw, bp, balObs, sbw, bt, btObs, ms, tbw, tbwObs, pw, pwObs, bs, bsObs, am, amObs, mc, mcObs, ac>>

OEWNext ==
  \/ OEWStart
  \/ OEWTimerFire
  \/ OEWStop
  \/ OEWReset
  \/ OEWFetchFail
  \/ OEWFetchOk

\* start(onEvent) and stop() in cycles, always with the same callback.
OEWCycleNext ==
  \/ OEWStartOnEvent
  \/ OEWTimerFire
  \/ OEWStop
  \/ OEWFetchFail
  \/ OEWFetchOk

(***************************************************************************)
(* TransactionWatcher (src/watchers/TransactionWatcher.ts)                  *)
(***************************************************************************)
Addrs == {"a", "b"}
\* Transaction hashes: one more than the capacity.
Hashes == 1..(MaxSeenPerAddress + 1)
\* The explorer's catalogue: hash h is in block h, at time TsOf(h).
Txs == {[hash |-> h, block |-> h, time |-> TsOf(h)] : h \in Hashes}
\* A raw item normalizeTxs drops (no hash, or a block or time that is no number).
InvalidTx == [hash |-> 0, block |-> 0, time |-> 0]
TxSeqs(n) == UNION {[1..k -> Txs] : k \in 0..n}
TxBatches == TxSeqs(MaxBatch) \cup {Append(b, InvalidTx) : b \in TxSeqs(MaxBatch - 1)}

\* normalizeTxs: the valid items, in the order returned.
RECURSIVE normalizeTxs(_)
normalizeTxs(raw) ==
  IF raw = <<>> THEN <<>>
  ELSE (IF Head(raw) \in Txs THEN <<Head(raw)>> ELSE <<>>) \o normalizeTxs(Tail(raw))

IndexOf(seq, x) == CHOOSE i \in DOMAIN seq : seq[i] = x
Without(seq, i) == SubSeq(seq, 1, i - 1) \o SubSeq(seq, i + 1, Len(seq))

\* The per-address entry of the seen map; lastBlock is undefined at first.
NewState == [set |-> {}, order |-> <<>>, lastBlock |-> None]

\* A markSeen that evicts the hash marked latest before this one.
markSeenDropsLatest(state, hash, maxSeenPerAddress) ==
  LET pushed == Append(state.order, hash) IN
  IF Len(pushed) > maxSeenPerAddress
  THEN [state EXCEPT !.order = Without(pushed, Len(pushed) - 1),
                     !.set = (state.set \cup {hash}) \ {pushed[Len(pushed) - 1]}]
  ELSE [state EXCEPT !.order = pushed, !.set = state.set \cup {hash}]

\* markSeen(state, hash) of an instance with the given maxSeenPerAddress;
\* hash is never empty (normalizeTxs), so `if (drop)` always holds.
markSeen(state, hash, maxSeenPerAddress) ==
  LET pushed == Append(state.order, hash) IN
  IF Len(pushed) > maxSeenPerAddress
  THEN [state EXCEPT !.order = Shift(pushed),
                     !.set = (state.set \cup {hash}) \ {Head(pushed)}]
  ELSE [state EXCEPT !.order = pushed, !.set = state.set \cup {hash}]

\* markSeen(state, hash) of the watcher of the model.
TWMarkSeen(state, hash) == markSeen(state, hash, MaxSeenPerAddress)

\* The inner for loop of tick over the normalized txs of addr.  c holds the
\* address's entry st, the observer o, the number n of emits of this batch,
\* the time last of the latest of them and threw; tracked tells whether addr
\* is in this.addresses.  The k-th
\* emit throws when throwAt = k: markSeen is then not reached.
RECURSIVE TxLoop(_, _, _, _, _)
TxLoop(txs, c, addr, tracked, throwAt) ==
  IF txs = <<>> THEN c
  ELSE LET tx == Head(txs) IN
       IF tx.hash \in c.st.set
       THEN TxLoop(Tail(txs), c, addr, tracked, throwAt)
       ELSE LET emitted ==
                  [c EXCEPT !.n = @ + 1,
                            !.last = Some(tx.time),
                            !.o.outOfOrder = @ \/ (c.last # None /\ tx.time < c.last[1]),
                            !.o.dupTx = @ \/ (tracked /\ tx.hash \in c.o.emitted[addr]),
                            !.o.emitted[addr] = IF tracked THEN @ \cup {tx.hash} ELSE @]
            IN IF c.n + 1 = throwAt THEN [emitted EXCEPT !.threw = TRUE]
               ELSE TxLoop(Tail(txs),
                      [emitted EXCEPT
                         !.st = [TWMarkSeen(c.st, tx.hash) EXCEPT
                                   !.lastBlock = IF @ = None THEN Some(tx.block)
                                                 ELSE Some(Max(@[1], tx.block))]],
                      addr, tracked, throwAt)

\* pollIntervalMs when the option is absent, and the floor it is raised to.
DefaultPollIntervalMs == 15000
MinPollIntervalMs == 250
\* The pollIntervalMs options an instance is constructed with.
PollIntervalOptions == {None, Some(500), Some(1000)}
\* Most lifecycle events listened to.
MaxLifecycle == 3

\* The state the constructor leaves with default options.  addresses is the
\* Set in insertion order; seen[a] is None when the Map has no entry for a;
\* ticks lists the tick bodies awaiting fetchWithRetry: the address being
\* fetched and the position in addresses the Set iterator visits next;
\* errorListener tells whether an "error" listener is registered,
\* txListeners counts the "tx" listeners start() registered, and exited
\* tells whether the host ended the process.
TWNew ==
  [addresses |-> <<>>, seen |-> [a \in Addrs |-> None], intervalId |-> FALSE,
   ticking |-> FALSE, ticks |-> <<>>, errorListener |-> FALSE,
   pollIntervalMs |-> DefaultPollIntervalMs, txListeners |-> 0, exited |-> FALSE]

\* new TransactionWatcher(apiEndpoint, {pollIntervalMs}): the option is
\* raised to the floor, never rejected.
TWConstructor(pollIntervalMs) ==
  [TWNew EXCEPT !.pollIntervalMs =
     Max(MinPollIntervalMs,
         IF pollIntervalMs = None THEN DefaultPollIntervalMs ELSE pollIntervalMs[1])]

\* emitted[a]: the hashes emitted for a since a was last added; dupTx: one
\* of them was emitted again; failRejected: a tick's promise rejected on the
\* path of a failed fetch; outOfOrder: within one batch a tx was emitted
\* after a tx with a later time.
TWObsNew ==
  [emitted |-> [a \in Addrs |-> {}], dupTx |-> FALSE, failRejected |-> FALSE,
   outOfOrder |-> FALSE, lifecycle |-> None]

\* The same with listeners for "started" and "stopped" registered:
\* lifecycle holds the events they received, in order.
TWObsListening == [TWObsNew EXCEPT !.lifecycle = Some(<<>>)]

\* this.emit("started") / this.emit("stopped")
EmitLifecycle(o, event) ==
  IF o.lifecycle = None THEN o
  ELSE [o EXCEPT !.lifecycle = Some(Append(@[1], event))]

CanEmitLifecycle(o) ==
  IF o.lifecycle = None THEN TRUE ELSE Len(o.lifecycle[1]) < MaxLifecycle

\* addAddress(address)
TWAdd(w, a) ==
  IF a \in Range(w.addresses) THEN w
  ELSE [w EXCEPT !.addresses = Append(@, a),
                 !.seen[a] = IF @ = None THEN Some(NewState) ELSE @]

RECURSIVE TWAddAll(_, _)
TWAddAll(w, as) == IF as = <<>> THEN w ELSE TWAddAll(TWAdd(w, Head(as)), Tail(as))

\* The observer forgets what it saw for the addresses a call newly adds.
ObsAdded(o, before, after) ==
  [o EXCEPT !.emitted = [a \in Addrs |->
      IF a \in Range(after) \ Range(before) THEN {} ELSE @[a]]]

\* The synchronous head of tick(): return when ticking; else raise the flag
\* and await the fetch of the first address (with no address the loop and
\* the finally block run at once).
TWTickHead(w) ==
  IF w.ticking \/ w.addresses = <<>> THEN w
  ELSE [w EXCEPT !.ticking = TRUE,
                 !.ticks = Append(@, [addr |-> w.addresses[1], next |-> 2])]

\* start(addresses, onTx), onTx telling whether the callback is given: it
\* is registered and the addresses are added before intervalId is looked at.
StartCall(onTx) ==
  /\ ~tw.exited
  /\ \E as \in {<<"a">>, <<"a", "b">>} :
    LET added == [TWAddAll(tw, as) EXCEPT !.txListeners = IF onTx THEN @ + 1 ELSE @]
        ticked == TWTickHead(added)
        seen == ObsAdded(twObs, tw.addresses, added.addresses)
    IN /\ added.txListeners <= MaxListeners
       /\ IF tw.intervalId
          THEN /\ tw' = added
               /\ twObs' = seen
          ELSE /\ Len(ticked.ticks) <= MaxInFlight
               /\ CanEmitLifecycle(twObs)
               /\ tw' = [ticked EXCEPT !.intervalId = TRUE]
               /\ twObs' = EmitLifecycle(seen, "started")

\* start(addresses)
TWStart ==
  /\ StartCall(FALSE)
  /\ UNCHANGED <<oew, oewObs, rl, ws, bw, bp, balObs, sbw, bt, btObs, ms, tbw, tbwObs, pw, pwObs, bs, bsObs, am, amObs, mc, mcObs, ac>>

\* start(addresses, onTx)
TWStartOnTx ==
  /\ StartCall(TRUE)
  /\ UNCHANGED <<oew, oewObs, rl, ws, bw, bp, balObs, sbw, bt, btObs, ms, tbw, tbwObs, pw, pwObs, bs, bsObs, am, amObs, mc, mcObs, ac>>

\* stop()
TWStop ==
  /\ ~tw.exited
  /\ CanEmitLifecycle(twObs)
  /\ tw' = [tw EXCEPT !.intervalId = FALSE, !.ticking = FALSE]
  /\ twObs' = EmitLifecycle(twObs, "stopped")
  /\ UNCHANGED <<oew, oewObs, rl, ws, bw, bp, balObs, sbw, bt, btObs, ms, tbw, tbwObs, pw, pwObs, bs, bsObs, am, amObs, mc, mcObs, ac>>

\* The addresses the user adds and removes while the watcher exists.
Movable == {"b"}

\* addAddress(address), called by the user
TWAddAddress ==
  /\ ~tw.exited
  /\ \E a \in Movable :
       /\ tw' = TWAdd(tw, a)
       /\ twObs' = ObsAdded(twObs, tw.addresses, tw'.addresses)
  /\ UNCHANGED <<oew, oewObs, rl, ws, bw, bp, balObs, sbw, bt, btObs, ms, tbw, tbwObs, pw, pwObs, bs, bsObs, am, amObs, mc, mcObs, ac>>

\* removeAddress(address): Set.delete moves the live iterators of the
\* running ticks back when the entry lies before their position.
TWRemoveAddress ==
  /\ ~tw.exited
  /\ \E a \in Range(tw.addresses) \cap Movable :
       LET j == IndexOf(tw.addresses, a) IN
       /\ tw' = [tw EXCEPT
                   !.addresses = Without(@, j),
                   !.seen[a] = None,
                   !.ticks = [i \in DOMAIN @ |->
                                IF j < @[i].next THEN [@[i] EXCEPT !.next = @ - 1]
                                ELSE @[i]]]
       /\ twObs' = [twObs EXCEPT !.emitted[a] = {}]
  /\ UNCHANGED <<oew, oewObs, rl, ws, bw, bp, balObs, sbw, bt, btObs, ms, tbw, tbwObs, pw, pwObs, bs, bsObs, am, amObs, mc, mcObs, ac>>

\* on("error", listener)
TWOnError ==
  /\ ~tw.exited
  /\ ~tw.errorListener
  /\ tw' = [tw EXCEPT !.errorListener = TRUE]
  /\ UNCHANGED <<twObs, oew, oewObs, rl, ws, bw, bp, balObs, sbw, bt, btObs, ms, tbw, tbwObs, pw, pwObs, bs, bsObs, am, amObs, mc, mcObs, ac>>

\* A fire of the setInterval timer.
TWTimerFire ==
  /\ ~tw.exited
  /\ tw.intervalId
  /\ Len(TWTickHead(tw).ticks) <= MaxInFlight
  /\ tw' = TWTickHead(tw)
  /\ UNCHANGED <<twObs, oew, oewObs, rl, ws, bw, bp, balObs, sbw, bt, btObs, ms, tbw, tbwObs, pw, pwObs, bs, bsObs, am, amObs, mc, mcObs, ac>>

\* The end of one tick body's await.  w and o are the state after the try
\* block, failed tells whether the catch block runs, byFetch whether it runs
\* because fetchWithRetry threw, errThrows whether a registered "error"
\* listener or the onError option throws.  The catch block's emit("error")
\* throws by itself when no "error" listener is registered; an exception of
\* the catch block leaves the loop, runs finally and rejects tick().  Nobody
\* handles the rejection (tick() is called with void): the host then goes
\* on or ends the process, as its unhandled-rejections mode says.
TWAfterTry(i, w, o, failed, byFetch, errThrows) ==
  LET t == w.ticks[i]
      escapes == failed /\ (~w.errorListener \/ errThrows)
  IN IF escapes \/ t.next > Len(w.addresses)
     THEN /\ \E exits \in (IF escapes THEN BOOLEAN ELSE {FALSE}) :
               tw' = [w EXCEPT !.ticks = Without(@, i), !.ticking = FALSE,
                               !.exited = exits]
          /\ twObs' = [o EXCEPT !.failRejected = @ \/ (escapes /\ byFetch)]
     ELSE /\ tw' = [w EXCEPT !.ticks[i] =
                      [addr |-> w.addresses[t.next], next |-> t.next + 1]]
          /\ twObs' = o

\* fetchWithRetry threw for the address a tick is at.
TWFetchFail ==
  /\ ~tw.exited
  /\ \E i \in DOMAIN tw.ticks, errThrows \in BOOLEAN :
       TWAfterTry(i, tw, twObs, TRUE, TRUE, errThrows)
  /\ UNCHANGED <<oew, oewObs, rl, ws, bw, bp, balObs, sbw, bt, btObs, ms, tbw, tbwObs, pw, pwObs, bs, bsObs, am, amObs, mc, mcObs, ac>>

\* What normalizeTxs makes of the responses of the explorer.
NormBatches == {normalizeTxs(raw) : raw \in TxBatches}

\* What the inner loop of tick can leave for addr, over the non-empty
\* normalized responses and the emit at which a listener throws (none when
\* throwAt is 0 or exceeds the emits of the batch).
TxOutcomes(w, o, addr) ==
  LET st0 == IF w.seen[addr] = None THEN NewState ELSE w.seen[addr][1]
      c0 == [st |-> st0, o |-> o, n |-> 0, last |-> None, threw |-> FALSE]
  IN {TxLoop(norm, c0, addr, addr \in Range(w.addresses), throwAt) :
        norm \in NormBatches \ {<<>>}, throwAt \in 0..MaxBatch}

\* fetchWithRetry returned for the address a tick is at: normalizeTxs, then
\* (unless nothing is left) ensureState and the loop over the txs.
TWFetchOk ==
  /\ ~tw.exited
  /\ \E i \in DOMAIN tw.ticks :
       LET addr == tw.ticks[i].addr IN
       \/ TWAfterTry(i, tw, twObs, FALSE, FALSE, FALSE)
       \/ \E out \in TxOutcomes(tw, twObs, addr) :
            \E errThrows \in (IF out.threw THEN BOOLEAN ELSE {FALSE}) :
              TWAfterTry(i, [tw EXCEPT !.seen[addr] = Some(out.st)],
                         out.o, out.threw, FALSE, errThrows)
  /\ UNCHANGED <<oew, oewObs, rl, ws, bw, bp, balObs, sbw, bt, btObs, ms, tbw, tbwObs, pw, pwObs, bs, bsObs, am, amObs, mc, mcObs, ac>>

TWNext ==
  \/ TWStart
  \/ TWStop
  \/ TWAddAddress
  \/ TWRemoveAddress
  \/ TWOnError
  \/ TWTimerFire
  \/ TWFetchFail
  \/ TWFetchOk

\* ---- markSeen on its own ----
\* A seen map of an instance whose maxSeenPerAddress is MSMax, under the
\* markSeen calls tick makes: for a hash normalizeTxs kept (never empty)
\* that the entry's set does not hold.  last records the latest call: the
\* address, the hash and the entry before it.
MSMax == MaxSeenPerAddress + 1
MSHashes == 1..(MSMax + 1)
MSNew == [seen |-> [a \in Addrs |-> NewState], last |-> None]

MSMarkSeen ==
  /\ \E a \in Addrs : \E hash \in MSHashes \ ms.seen[a].set :
       ms' = [seen |-> [ms.seen EXCEPT ![a] = markSeen(@, hash, MSMax)],
              last |-> Some([addr |-> a, hash |-> hash, before |-> ms.seen[a]])]
  /\ UNCHANGED <<oew, oewObs, tw, twObs, bw, bp, balObs, rl, ws, sbw, bt, btObs, tbw, tbwObs, pw, pwObs, bs, bsObs, am, amObs, mc, mcObs, ac>>

\* removeAddress(a) followed by addAddress(a): a fresh entry.
MSForget ==
  /\ \E a \in Addrs :
       ms' = [seen |-> [ms.seen EXCEPT ![a] = NewState], last |-> None]
  /\ UNCHANGED <<oew, oewObs, tw, twObs, bw, bp, balObs, rl, ws, sbw, bt, btObs, tbw, tbwObs, pw, pwObs, bs, bsObs, am, amObs, mc, mcObs, ac>>

MSNext ==
  \/ MSMarkSeen
  \/ MSForget

\* A watcher that is started and never stopped, its addresses changed by
\* start() only.
TWLiveNext ==
  \/ TWStart
  \/ TWOnError
  \/ TWTimerFire
  \/ TWFetchFail
  \/ TWFetchOk

\* A watcher that is only started, stopped and left to poll, with "tx",
\* "started" and "stopped" listened to.
TWLifeNext ==
  \/ TWStartOnTx
  \/ TWStop
  \/ TWTimerFire
  \/ TWFetchFail
  \/ TWFetchOk

(***************************************************************************)
(* BalanceWatcher (src/unnamed/part_013) and BalancePoller                  *)
(* (src/unnamed/part_018), watching one key                                 *)
(***************************************************************************)
Subjects == {"BalanceWatcher", "BalancePoller"}
\* Scenario A of the specification, and the balances a fetch may return.
Scenario == <<10, 10, 15, 15, 20>>
Values == Range(Scenario)

\* A JavaScript number: NaN, or the number v.
NaN == [nan |-> TRUE, v |-> 0]
Num(x) == [nan |-> FALSE, v |-> x]
\* a !== b on numbers: NaN differs from every number, itself included.
StrictNotEqual(a, b) == a.nan \/ b.nan \/ a.v # b.v

\* What was fetched for the key, in order of completion, each with whether
\* the listener threw, the number of change notifications delivered and the
\* payload of the latest one.
BalObsNew(subject) ==
  [subject |-> subject, hist |-> <<>>, changes |-> 0, lastChange |-> None]

\* change is None when the fetch notified nobody, else Some(payload).
ObserveFetch(o, newBal, change, threw) ==
  [o EXCEPT !.hist = Append(@, [v |-> newBal, threw |-> threw]),
            !.changes = IF change # None THEN @ + 1 ELSE @,
            !.lastChange = IF change # None THEN change ELSE @]

\* The BalanceChange payload of BalanceWatcher.pollAddress: a first fetch
\* (stored NaN) reports the new balance as the old one.
BalanceChange(oldBal, newBal) ==
  [oldBalance |-> IF oldBal.nan THEN newBal ELSE oldBal, newBalance |-> newBal]

\* ---- BalanceWatcher ----
\* The addresses watched: X is the observed key, Y another one.
BalKeys == {"X", "Y"}
AddressLists == {<<"X">>, <<"X", "Y">>}
\* The pollAddress tasks of the run in slot r, one per address.
Runs == 1..MaxInFlight
Tasks == [addr : BalKeys, run : Runs]

\* lastBalances[a] holds the Map's entry for a (None: no entry).  The
\* limiter runs the tasks in active, whose pollAddress bodies are awaiting
\* fetchBalance, and holds the others in queue, oldest first.
BWNew ==
  [lastBalances |-> [a \in BalKeys |-> None], addresses |-> <<>>,
   running |-> FALSE, intervalId |-> FALSE, active |-> {}, queue |-> <<>>]

runImmediate == TRUE

\* setAddresses(list): NaN for the new addresses, the others are pruned.
BWSetAddresses ==
  /\ balObs.subject = "BalanceWatcher"
  /\ \E list \in AddressLists :
       bw' = [bw EXCEPT
                !.addresses = list,
                !.lastBalances = [a \in BalKeys |->
                   IF a \notin Range(list) THEN None
                   ELSE IF @[a] = None THEN Some(NaN) ELSE @[a]]]
  /\ UNCHANGED <<bp, balObs, oew, oewObs, tw, twObs, rl, ws, sbw, bt, btObs, ms, tbw, tbwObs, pw, pwObs, bs, bsObs, am, amObs, mc, mcObs, ac>>

\* The pollOnce runs in progress: those with a task that has not settled.
RunsInProgress(w) == {t.run : t \in w.active \cup Range(w.queue)}

\* A limiter that admits one task more than concurrency.
LimiterAdmitsOneMore(activeCount) == activeCount <= Concurrency

\* pLimit(this.concurrency): a task starts while fewer than concurrency run.
LimiterAdmits(activeCount) == activeCount < Concurrency

\* this.limiter(() => this.pollAddress(addr))
LimiterSubmit(w, t) ==
  IF w.queue = <<>> /\ LimiterAdmits(Cardinality(w.active))
  THEN [w EXCEPT !.active = @ \cup {t}]
  ELSE [w EXCEPT !.queue = Append(@, t)]

\* The task t settled: the limiter starts the oldest waiting task.
LimiterDone(w, t) ==
  LET freed == w.active \ {t} IN
  IF w.queue # <<>> /\ LimiterAdmits(Cardinality(freed))
  THEN [w EXCEPT !.active = freed \cup {Head(w.queue)}, !.queue = Tail(@)]
  ELSE [w EXCEPT !.active = freed]

RECURSIVE SubmitAll(_, _, _)
SubmitAll(w, addrs, run) ==
  IF addrs = <<>> THEN w
  ELSE SubmitAll(LimiterSubmit(w, [addr |-> Head(addrs), run |-> run]), Tail(addrs), run)

\* pollOnce(): one limited pollAddress task per address, as a new run.
pollOnce(w) ==
  SubmitAll(w, w.addresses, CHOOSE r \in Runs : r \notin RunsInProgress(w))

\* The model holds at most MaxInFlight runs at once.
CanPoll(w) == Cardinality(RunsInProgress(w)) < MaxInFlight

\* start(): throws before any change when no address is set.
BWStart ==
  /\ balObs.subject = "BalanceWatcher"
  /\ ~bw.running
  /\ bw.addresses # <<>>
  /\ runImmediate => CanPoll(bw)
  /\ LET polled == IF runImmediate THEN pollOnce(bw) ELSE bw IN
     bw' = [polled EXCEPT !.running = TRUE, !.intervalId = TRUE]
  /\ UNCHANGED <<bp, balObs, oew, oewObs, tw, twObs, rl, ws, sbw, bt, btObs, ms, tbw, tbwObs, pw, pwObs, bs, bsObs, am, amObs, mc, mcObs, ac>>

\* stop()
BWStop ==
  /\ balObs.subject = "BalanceWatcher"
  /\ bw' = [bw EXCEPT !.intervalId = FALSE, !.running = FALSE]
  /\ UNCHANGED <<bp, balObs, oew, oewObs, tw, twObs, rl, ws, sbw, bt, btObs, ms, tbw, tbwObs, pw, pwObs, bs, bsObs, am, amObs, mc, mcObs, ac>>

\* A fire of the setInterval timer.
BWTimerFire ==
  /\ bw.intervalId
  /\ CanPoll(bw)
  /\ bw' = pollOnce(bw)
  /\ UNCHANGED <<bp, balObs, oew, oewObs, tw, twObs, rl, ws, sbw, bt, btObs, ms, tbw, tbwObs, pw, pwObs, bs, bsObs, am, amObs, mc, mcObs, ac>>

\* The entry pollAddress reads: lastBalances.get(addr), undefined when pruned.
StoredBalance(w, addr) ==
  IF w.lastBalances[addr] = None THEN NaN ELSE w.lastBalances[addr][1]

\* pollAddress without its lastBalances.set.
pollAddressNoStore(w, addr, newBal) == w

\* pollAddress after fetchBalance returned newBal: the entry is replaced
\* before "change" is emitted, so a throwing listener does not undo it.
pollAddress(w, addr, newBal) ==
  IF StrictNotEqual(StoredBalance(w, addr), newBal)
  THEN [w EXCEPT !.lastBalances[addr] = Some(newBal)]
  ELSE w

\* fetchBalance returned for a running task.  A "change" listener that
\* throws lands in the catch block, which emits "error": no field depends
\* on it, and the observer does not tell it apart.
BWFetchOk ==
  /\ \E t \in bw.active, x \in Values :
       LET oldBal == StoredBalance(bw, t.addr)
           notified == StrictNotEqual(oldBal, Num(x))
       IN /\ bw' = LimiterDone(pollAddress(bw, t.addr, Num(x)), t)
          /\ IF t.addr = "X"
             THEN /\ Len(balObs.hist) < Len(Scenario)
                  /\ balObs' = ObserveFetch(balObs, Num(x),
                        IF notified THEN Some(BalanceChange(oldBal, Num(x))) ELSE None,
                        FALSE)
             ELSE UNCHANGED balObs
  /\ UNCHANGED <<bp, oew, oewObs, tw, twObs, rl, ws, sbw, bt, btObs, ms, tbw, tbwObs, pw, pwObs, bs, bsObs, am, amObs, mc, mcObs, ac>>

\* fetchBalance threw for a running task: the catch block emits "error".
BWFetchFail ==
  /\ \E t \in bw.active : bw' = LimiterDone(bw, t)
  /\ UNCHANGED <<bp, balObs, oew, oewObs, tw, twObs, rl, ws, sbw, bt, btObs, ms, tbw, tbwObs, pw, pwObs, bs, bsObs, am, amObs, mc, mcObs, ac>>

\* ---- BalancePoller ----
\* last holds the Map's entry for the key; polling counts the per-address
\* tasks awaiting fetcher.fetch.
BPNew == [last |-> None, intervalId |-> FALSE, isPolling |-> FALSE, polling |-> 0]

\* start([X], onChange)
BPStart ==
  /\ balObs.subject = "BalancePoller"
  /\ ~bp.isPolling
  /\ bp' = [bp EXCEPT !.isPolling = TRUE, !.intervalId = TRUE,
                      !.last = IF @ = None THEN Some(Num(0)) ELSE @]
  /\ UNCHANGED <<bw, balObs, oew, oewObs, tw, twObs, rl, ws, sbw, bt, btObs, ms, tbw, tbwObs, pw, pwObs, bs, bsObs, am, amObs, mc, mcObs, ac>>

\* stop()
BPStop ==
  /\ bp.intervalId
  /\ bp' = [bp EXCEPT !.intervalId = FALSE, !.isPolling = FALSE]
  /\ UNCHANGED <<bw, balObs, oew, oewObs, tw, twObs, rl, ws, sbw, bt, btObs, ms, tbw, tbwObs, pw, pwObs, bs, bsObs, am, amObs, mc, mcObs, ac>>

\* reset(); the observation starts afresh.
BPReset ==
  /\ balObs.subject = "BalancePoller"
  /\ bp' = [bp EXCEPT !.last = None]
  /\ balObs' = BalObsNew(balObs.subject)
  /\ UNCHANGED <<bw, oew, oewObs, tw, twObs, rl, ws, sbw, bt, btObs, ms, tbw, tbwObs, pw, pwObs, bs, bsObs, am, amObs, mc, mcObs, ac>>

\* A fire of the setInterval timer: one task per address.
BPTimerFire ==
  /\ bp.intervalId
  /\ bp.polling < MaxInFlight
  /\ bp' = [bp EXCEPT !.polling = @ + 1]
  /\ UNCHANGED <<bw, balObs, oew, oewObs, tw, twObs, rl, ws, sbw, bt, btObs, ms, tbw, tbwObs, pw, pwObs, bs, bsObs, am, amObs, mc, mcObs, ac>>

\* A task after fetcher.fetch returned newBal: onChange runs before the
\* entry is replaced, so when onChange throws the entry stays.
BPTask(p, newBal, threw) ==
  LET oldBal == IF p.last = None THEN Num(0) ELSE p.last[1] IN
  IF StrictNotEqual(newBal, oldBal) /\ ~threw
  THEN [p EXCEPT !.polling = @ - 1, !.last = Some(newBal)]
  ELSE [p EXCEPT !.polling = @ - 1]

BPFetchOk ==
  /\ bp.polling > 0
  /\ Len(balObs.hist) < Len(Scenario)
  /\ \E x \in Values :
       LET oldBal == IF bp.last = None THEN Num(0) ELSE bp.last[1]
           notified == StrictNotEqual(Num(x), oldBal)
       IN \E threw \in (IF notified THEN BOOLEAN ELSE {FALSE}) :
            /\ bp' = BPTask(bp, Num(x), threw)
            /\ balObs' = ObserveFetch(balObs, Num(x),
                            IF notified
                            THEN Some([oldBalance |-> oldBal, newBalance |-> Num(x)])
                            ELSE None,
                            threw)
  /\ UNCHANGED <<bw, oew, oewObs, tw, twObs, rl, ws, sbw, bt, btObs, ms, tbw, tbwObs, pw, pwObs, bs, bsObs, am, amObs, mc, mcObs, ac>>

\* fetcher.fetch threw: the catch block logs a warning.
BPFetchFail ==
  /\ bp.polling > 0
  /\ bp' = [bp EXCEPT !.polling = @ - 1]
  /\ UNCHANGED <<bw, balObs, oew, oewObs, tw, twObs, rl, ws, sbw, bt, btObs, ms, tbw, tbwObs, pw, pwObs, bs, bsObs, am, amObs, mc, mcObs, ac>>

BalNext ==
  \/ BWSetAddresses
  \/ BWStart
  \/ BWStop
  \/ BWTimerFire
  \/ BWFetchOk
  \/ BWFetchFail
  \/ BPStart
  \/ BPStop
  \/ BPReset
  \/ BPTimerFire
  \/ BPFetchOk
  \/ BPFetchFail

(***************************************************************************)
(* BalanceWatcher (src/watchers/BalanceWatcher.ts)                          *)
(***************************************************************************)
\* Most setInterval timers one instance creates.
MaxTimers == 2

\* intervalId holds the handle of the timer the latest start() created and
\* timers lists the timers created so far, by handle: whether the timer is
\* still armed, the addresses its callback closes over, and the limiter that
\* start() call made: the addresses whose task awaits fetchBalance (active)
\* and those of the tasks waiting for a slot (queue).
SBWNew ==
  [lastBalances |-> [a \in BalKeys |-> None], intervalId |-> None, timers |-> <<>>]

\* limit(async () => ...) for one address of the timer t.
SBWSubmit(t, addr) ==
  IF t.queue = <<>> /\ LimiterAdmits(Len(t.active))
  THEN [t EXCEPT !.active = Append(@, addr)]
  ELSE [t EXCEPT !.queue = Append(@, addr)]

\* The timer's callback: addresses.forEach(addr => limit(...)).
RECURSIVE SBWCallback(_, _)
SBWCallback(t, addrs) ==
  IF addrs = <<>> THEN t ELSE SBWCallback(SBWSubmit(t, Head(addrs)), Tail(addrs))

\* start(addresses) with addresses that pass AddrSchema: every entry is set
\* to NaN, a limiter and a timer are created and intervalId is overwritten.
SBWStart ==
  /\ Len(sbw.timers) < MaxTimers
  /\ \E addresses \in AddressLists :
       sbw' = [sbw EXCEPT
                 !.lastBalances = [a \in BalKeys |->
                    IF a \in Range(addresses) THEN Some(NaN) ELSE @[a]],
                 !.timers = Append(@, [armed |-> TRUE, addresses |-> addresses,
                                       active |-> <<>>, queue |-> <<>>]),
                 !.intervalId = Some(Len(sbw.timers) + 1)]
  /\ UNCHANGED <<oew, oewObs, tw, twObs, bw, bp, balObs, rl, ws, bt, btObs, ms, tbw, tbwObs, pw, pwObs, bs, bsObs, am, amObs, mc, mcObs, ac>>

\* stop(): clears the timer intervalId names, if any.
SBWStop ==
  /\ sbw' = IF sbw.intervalId = None THEN sbw
            ELSE [sbw EXCEPT !.timers[sbw.intervalId[1]].armed = FALSE,
                             !.intervalId = None]
  /\ UNCHANGED <<oew, oewObs, tw, twObs, bw, bp, balObs, rl, ws, bt, btObs, ms, tbw, tbwObs, pw, pwObs, bs, bsObs, am, amObs, mc, mcObs, ac>>

\* A fire of one of the armed timers.
SBWTimerFire ==
  /\ \E h \in DOMAIN sbw.timers :
       LET t == sbw.timers[h] IN
       /\ t.armed
       /\ Len(t.active) + Len(t.queue) + Len(t.addresses) <= MaxInFlight
       /\ sbw' = [sbw EXCEPT !.timers[h] = SBWCallback(t, t.addresses)]
  /\ UNCHANGED <<oew, oewObs, tw, twObs, bw, bp, balObs, rl, ws, bt, btObs, ms, tbw, tbwObs, pw, pwObs, bs, bsObs, am, amObs, mc, mcObs, ac>>

\* The i-th running task of the limiter of timer h settled: the limiter
\* starts the oldest waiting task.
SBWSettled(w, h, i) ==
  LET t == w.timers[h]
      freed == Without(t.active, i)
  IN IF t.queue # <<>> /\ LimiterAdmits(Len(freed))
     THEN [w EXCEPT !.timers[h].active = Append(freed, Head(t.queue)),
                    !.timers[h].queue = Tail(t.queue)]
     ELSE [w EXCEPT !.timers[h].active = freed]

\* fetchBalance returned newBal for a running task: the entry is replaced
\* when it differs, then "change" is emitted (a throwing listener lands in
\* the task's own catch block and changes no field).
SBWFetchOk ==
  /\ \E h \in DOMAIN sbw.timers :
       \E i \in DOMAIN sbw.timers[h].active, x \in Values :
         LET addr == sbw.timers[h].active[i]
             oldBal == StoredBalance(sbw, addr)
             stored == IF StrictNotEqual(oldBal, Num(x))
                       THEN [sbw EXCEPT !.lastBalances[addr] = Some(Num(x))]
                       ELSE sbw
         IN sbw' = SBWSettled(stored, h, i)
  /\ UNCHANGED <<oew, oewObs, tw, twObs, bw, bp, balObs, rl, ws, bt, btObs, ms, tbw, tbwObs, pw, pwObs, bs, bsObs, am, amObs, mc, mcObs, ac>>

\* fetchBalance threw for a running task: the catch block emits "error".
SBWFetchFail ==
  /\ \E h \in DOMAIN sbw.timers :
       \E i \in DOMAIN sbw.timers[h].active : sbw' = SBWSettled(sbw, h, i)
  /\ UNCHANGED <<oew, oewObs, tw, twObs, bw, bp, balObs, rl, ws, bt, btObs, ms, tbw, tbwObs, pw, pwObs, bs, bsObs, am, amObs, mc, mcObs, ac>>

SBWNext ==
  \/ SBWStart
  \/ SBWStop
  \/ SBWTimerFire
  \/ SBWFetchOk
  \/ SBWFetchFail

(***************************************************************************)
(* BalanceTracker (src/ai_base/ai_mind/tradeplan/balanceTracker.ts)         *)
(***************************************************************************)
\* The lists subscribe and unsubscribe are called with.
BTLists == {<<"X">>, <<"Y">>, <<"X", "Y">>, <<"Y", "X">>}

\* records holds the Map's entries in insertion order; timer tells whether
\* the interval timer is armed; polls lists the poll() calls awaiting
\* getBalance: the position pos of the entry the Map iterator is at and the
\* record object rec the loop read there.
BTNew == [records |-> <<>>, timer |-> FALSE, polls |-> <<>>]

\* The provider rejects getBalance for the addresses in failing and answers
\* for the others.  unvisited: the addresses the poll() that ended last left
\* unfetched.
BTObsNew(failing) == [failing |-> failing, unvisited |-> {}]

BTAddresses(t) == {t.records[k].address : k \in DOMAIN t.records}

\* subscribe(addresses)
RECURSIVE BTAddAll(_, _)
BTAddAll(records, addresses) ==
  IF addresses = <<>> THEN records
  ELSE BTAddAll(
         IF \E k \in DOMAIN records : records[k].address = Head(addresses)
         THEN records
         ELSE Append(records, [address |-> Head(addresses), lamports |-> 0]),
         Tail(addresses))

BTSubscribe ==
  /\ \E addresses \in BTLists :
       bt' = [bt EXCEPT !.records = BTAddAll(@, addresses), !.timer = TRUE]
  /\ UNCHANGED <<btObs, oew, oewObs, tw, twObs, bw, bp, balObs, rl, ws, sbw, ms, tbw, tbwObs, pw, pwObs, bs, bsObs, am, amObs, mc, mcObs, ac>>

\* records.delete(addr): the live iterators of the running polls move back
\* when the entry lies at or before their position.
BTDelete(t, addr) ==
  IF addr \notin BTAddresses(t) THEN t
  ELSE LET j == CHOOSE k \in DOMAIN t.records : t.records[k].address = addr IN
       [t EXCEPT !.records = Without(@, j),
                 !.polls = [i \in DOMAIN @ |->
                              IF j <= @[i].pos THEN [@[i] EXCEPT !.pos = @ - 1]
                              ELSE @[i]]]

RECURSIVE BTDeleteAll(_, _)
BTDeleteAll(t, addresses) ==
  IF addresses = <<>> THEN t
  ELSE BTDeleteAll(BTDelete(t, Head(addresses)), Tail(addresses))

\* unsubscribe(addresses)
BTUnsubscribe ==
  /\ \E addresses \in BTLists :
       LET deleted == BTDeleteAll(bt, addresses) IN
       bt' = IF deleted.records = <<>> THEN [deleted EXCEPT !.timer = FALSE]
             ELSE deleted
  /\ UNCHANGED <<btObs, oew, oewObs, tw, twObs, bw, bp, balObs, rl, ws, sbw, ms, tbw, tbwObs, pw, pwObs, bs, bsObs, am, amObs, mc, mcObs, ac>>

\* A fire of the interval timer: poll() runs up to its first await (with no
\* record it returns at once).
BTTimerFire ==
  /\ bt.timer
  /\ Len(bt.polls) < MaxInFlight
  /\ bt' = IF bt.records = <<>> THEN bt
           ELSE [bt EXCEPT !.polls = Append(@, [pos |-> 1, rec |-> bt.records[1]])]
  /\ UNCHANGED <<btObs, oew, oewObs, tw, twObs, bw, bp, balObs, rl, ws, sbw, ms, tbw, tbwObs, pw, pwObs, bs, bsObs, am, amObs, mc, mcObs, ac>>

\* records.set(address, record): in place for a key the Map holds, at the
\* end for a key that was deleted meanwhile.
BTSet(records, record) ==
  IF \E k \in DOMAIN records : records[k].address = record.address
  THEN [k \in DOMAIN records |->
          IF records[k].address = record.address THEN record ELSE records[k]]
  ELSE Append(records, record)

\* getBalance returned lamports to poll i: the record is replaced and
\* 'balanceUpdate' emitted when lamports differs from the record read before
\* the await; then the loop goes to the next entry or poll() returns.
BTGetBalanceOk ==
  /\ \E i \in DOMAIN bt.polls, lamports \in Values :
       LET p == bt.polls[i]
           records == IF lamports # p.rec.lamports
                      THEN BTSet(bt.records, [address |-> p.rec.address,
                                              lamports |-> lamports])
                      ELSE bt.records
       IN /\ p.rec.address \notin btObs.failing
          /\ IF p.pos + 1 > Len(records)
             THEN /\ bt' = [bt EXCEPT !.records = records, !.polls = Without(@, i)]
                  /\ btObs' = [btObs EXCEPT !.unvisited = {}]
             ELSE /\ bt' = [bt EXCEPT !.records = records,
                                      !.polls[i] = [pos |-> p.pos + 1,
                                                    rec |-> records[p.pos + 1]]]
                  /\ btObs' = btObs
  /\ UNCHANGED <<oew, oewObs, tw, twObs, bw, bp, balObs, rl, ws, sbw, ms, tbw, tbwObs, pw, pwObs, bs, bsObs, am, amObs, mc, mcObs, ac>>

\* getBalance rejected for poll i: nothing catches it, the exception leaves
\* the for loop and poll() rejects.
BTGetBalanceFail ==
  /\ \E i \in DOMAIN bt.polls :
       LET p == bt.polls[i] IN
       /\ p.rec.address \in btObs.failing
       /\ bt' = [bt EXCEPT !.polls = Without(@, i)]
       /\ btObs' = [btObs EXCEPT !.unvisited =
            {bt.records[k].address : k \in (p.pos + 1)..Len(bt.records)}]
  /\ UNCHANGED <<oew, oewObs, tw, twObs, bw, bp, balObs, rl, ws, sbw, ms, tbw, tbwObs, pw, pwObs, bs, bsObs, am, amObs, mc, mcObs, ac>>

BTNext ==
  \/ BTSubscribe
  \/ BTUnsubscribe
  \/ BTTimerFire
  \/ BTGetBalanceOk
  \/ BTGetBalanceFail

(***************************************************************************)
(* The retrying fetch loops: TransactionWatcher.fetchWithRetry,             *)
(* OuterEventWatcher.getWithRetry and BalanceWatcher.fetchJson.             *)
(***************************************************************************)
Variants == {"TransactionWatcher", "OuterEventWatcher", "BalanceWatcher"}

\* What one attempt (the fetch and the reading of its body) comes to:
\*   ok       a 2xx response whose body parses
\*   badJson  a 2xx response whose res.json() rejects
\*   http404  any 4xx other than 408 and 429
\*   http408, http429, http500 (any 5xx)
\*   network  fetch rejects with an error that is no AbortError
\*   timeout  the timer aborted the request: fetch rejects with AbortError
Outcomes ==
  {"ok", "badJson", "http404", "http408", "http429", "http500", "network", "timeout"}
HttpErrors == {"http404", "http408", "http429", "http500"}

\* The statuses the `if (!res.ok)` branch retries without throwing.
RetryStatuses(variant) ==
  CASE variant = "TransactionWatcher" -> {"http429", "http500"}
    [] variant = "OuterEventWatcher" -> {"http408", "http429", "http500"}
    [] OTHER -> {}

\* The first value of the loop variable, and the loop condition.
FirstAttempt(variant) == IF variant = "BalanceWatcher" THEN 0 ELSE 1
InLoop(variant, attempt, retries) ==
  IF variant = "BalanceWatcher" THEN attempt <= retries ELSE attempt <= retries + 1

\* A catch block that retries aborted attempts like any other failure.
CatchRetriesAborts(variant, attempt, retries, isAbort) ==
  IF variant = "BalanceWatcher" THEN attempt < retries ELSE attempt <= retries

\* The catch block's decision to sleep and continue rather than break.
CatchRetries(variant, attempt, retries, isAbort) ==
  IF variant = "BalanceWatcher" THEN attempt < retries
  ELSE attempt <= retries /\ ~isAbort

\* The default of the backoffMs option, and the spans of the jitter added
\* by computeDelay and by the catch block, in milliseconds.
RLBackoffMs == 300
StatusJitterSpan == 200
CatchJitterSpan == 100

\* The Retry-After header of an error response: absent, a number of seconds,
\* or an HTTP date given by its distance from now in milliseconds.
RLRetryAfters ==
  {[kind |-> "none", v |-> 0], [kind |-> "seconds", v |-> 0],
   [kind |-> "date", v |-> 1000]}
\* Math.random(): the two ends of its range, as 0 and 1.
RLDraws == {0, 1}

\* A computeDelay whose backoff grows with attempt, not with its square.
computeDelayLinear(base, attempt, ra, draw) ==
  IF ra.kind = "seconds" THEN Max(0, ra.v * 1000)
  ELSE IF ra.kind = "date" THEN Max(0, ra.v)
  ELSE base * attempt + draw * (StatusJitterSpan - 1)

\* computeDelay / computeRetryDelay(base, attempt, retryAfterHeader)
computeDelay(base, attempt, ra, draw) ==
  IF ra.kind = "seconds" THEN Max(0, ra.v * 1000)
  ELSE IF ra.kind = "date" THEN Max(0, ra.v)
  ELSE base * attempt * attempt + draw * (StatusJitterSpan - 1)

\* The delay the catch block sleeps: fetchJson waits backoffMs, the other
\* two backoffMs * attempt^2 plus a jitter.
CatchDelay(variant, attempt, draw) ==
  IF variant = "BalanceWatcher" THEN RLBackoffMs
  ELSE RLBackoffMs * attempt * attempt + draw * (CatchJitterSpan - 1)

\* The state at the call: nothing fetched yet.  calls counts the fetch
\* invocations, sleeps the delays waited and waited their sum, outcomes
\* lists what the attempts came to and retryAfter tells whether one of the
\* responses carried a Retry-After header.
RLNew(variant, retries) ==
  [variant |-> variant, retries |-> retries, attempt |-> FirstAttempt(variant),
   pc |-> "idle", lastErr |-> None, calls |-> 0, sleeps |-> 0, outcomes |-> <<>>,
   waited |-> 0, retryAfter |-> FALSE]

\* The loop head: the condition, then `await fetch(...)` of this attempt.
\* Leaving the loop by its condition reaches `throw lastErr`.
LoopHead(r) ==
  IF InLoop(r.variant, r.attempt, r.retries)
  THEN [r EXCEPT !.pc = "fetch", !.calls = @ + 1]
  ELSE [r EXCEPT !.pc = "thrown"]

\* A loop body whose status branch sleeps and continues without asking
\* whether attempts remain.
LoopBodyStatusUnguarded(r, outcome, ra, draw) ==
  LET seen == [r EXCEPT !.outcomes = Append(@, outcome),
                        !.retryAfter = @ \/ ra.kind # "none"]
      caught(err, isAbort) ==
        IF CatchRetries(r.variant, r.attempt, r.retries, isAbort)
        THEN [seen EXCEPT !.lastErr = Some(err), !.pc = "sleep", !.sleeps = @ + 1,
                          !.waited = @ + CatchDelay(r.variant, r.attempt, draw)]
        ELSE [seen EXCEPT !.lastErr = Some(err), !.pc = "thrown"]
  IN CASE outcome = "ok" -> [seen EXCEPT !.pc = "returned"]
       [] outcome \in HttpErrors ->
            IF outcome \in RetryStatuses(r.variant)
            THEN [seen EXCEPT !.pc = "sleep", !.sleeps = @ + 1,
                              !.waited = @ + computeDelay(RLBackoffMs, r.attempt, ra, draw)]
            ELSE caught(outcome, FALSE)
       [] outcome = "timeout" -> caught("timeout", TRUE)
       [] OTHER -> caught(outcome, FALSE)

\* The loop body from the settled fetch to the next await or to the exit;
\* ra is the Retry-After header of an error response, draw what
\* Math.random() gives.
LoopBody(r, outcome, ra, draw) ==
  LET seen == [r EXCEPT !.outcomes = Append(@, outcome),
                        !.retryAfter = @ \/ ra.kind # "none"]
      caught(err, isAbort) ==
        IF CatchRetries(r.variant, r.attempt, r.retries, isAbort)
        THEN [seen EXCEPT !.lastErr = Some(err), !.pc = "sleep", !.sleeps = @ + 1,
                          !.waited = @ + CatchDelay(r.variant, r.attempt, draw)]
        ELSE [seen EXCEPT !.lastErr = Some(err), !.pc = "thrown"]
  IN CASE outcome = "ok" -> [seen EXCEPT !.pc = "returned"]
       [] outcome \in HttpErrors ->
            IF r.attempt <= r.retries /\ outcome \in RetryStatuses(r.variant)
            THEN [seen EXCEPT !.pc = "sleep", !.sleeps = @ + 1,
                              !.waited = @ + computeDelay(RLBackoffMs, r.attempt, ra, draw)]
            ELSE caught(outcome, FALSE)
       [] outcome = "timeout" -> caught("timeout", TRUE)
       [] OTHER -> caught(outcome, FALSE)

\* The caller enters the loop.
RLCall ==
  /\ rl.pc = "idle"
  /\ rl' = LoopHead(rl)
  /\ UNCHANGED <<oew, oewObs, tw, twObs, ws, bw, bp, balObs, sbw, bt, btObs, ms, tbw, tbwObs, pw, pwObs, bs, bsObs, am, amObs, mc, mcObs, ac>>

\* The awaited fetch settles.
RLAttempt ==
  /\ rl.pc = "fetch"
  /\ \E outcome \in Outcomes, draw \in RLDraws :
       \E ra \in (IF outcome \in HttpErrors THEN RLRetryAfters
                  ELSE {[kind |-> "none", v |-> 0]}) :
         rl' = LoopBody(rl, outcome, ra, draw)
  /\ UNCHANGED <<oew, oewObs, tw, twObs, ws, bw, bp, balObs, sbw, bt, btObs, ms, tbw, tbwObs, pw, pwObs, bs, bsObs, am, amObs, mc, mcObs, ac>>

\* The awaited sleep ends: `continue`, attempt++, the loop head again.
RLSleepDone ==
  /\ rl.pc = "sleep"
  /\ rl' = LoopHead([rl EXCEPT !.attempt = @ + 1])
  /\ UNCHANGED <<oew, oewObs, tw, twObs, ws, bw, bp, balObs, sbw, bt, btObs, ms, tbw, tbwObs, pw, pwObs, bs, bsObs, am, amObs, mc, mcObs, ac>>

RLNext ==
  \/ RLCall
  \/ RLAttempt
  \/ RLSleepDone

(***************************************************************************)
(* WebhookSendout.send (src/README.md)                                      *)
(***************************************************************************)
\* The defaults of the backoffMs and maxBackoffMs options, and the span of
\* the jitter, in milliseconds.
WSBackoffMs == 500
WSMaxBackoffMs == 10000
WSJitterSpan == 200

\* clamp(n, min, max)
Clamp(n, lo, hi) == Min(Max(n, lo), hi)

\* The Retry-After header of a response: absent, a number of seconds, or an
\* HTTP date given by its distance from now in milliseconds.
RetryAfters ==
  {[kind |-> "none", v |-> 0], [kind |-> "seconds", v |-> 1],
   [kind |-> "seconds", v |-> 20], [kind |-> "date", v |-> 5000],
   [kind |-> "date", v |-> 0 - 5000]}
NoRetryAfter == [kind |-> "none", v |-> 0]
\* Math.floor(Math.random() * 200): the two ends of its range.
JitterDraws == {0, WSJitterSpan - 1}

\* The maxBackoffMs options send is used with: the default, and one that
\* backoffMs * attempt^2 reaches within the attempts of the model.
MaxBackoffOptions == {WSMaxBackoffMs, WSBackoffMs * MaxRetries * MaxRetries}

\* computeDelay(attempt, res): hasRes tells whether a response was passed.
WSComputeDelay(attempt, hasRes, ra, jitter, draw, maxBackoffMs) ==
  IF hasRes /\ ra.kind = "seconds"
  THEN Clamp(ra.v * 1000, 0, maxBackoffMs)
  ELSE IF hasRes /\ ra.kind = "date"
  THEN Clamp(Max(0, ra.v), 0, maxBackoffMs)
  ELSE LET base == Min(WSBackoffMs * attempt * attempt, maxBackoffMs)
       IN IF ~jitter THEN base ELSE base + draw

\* What one attempt comes to:
\*   ok         res.ok
\*   fatal      not ok and retryOnResponse(res) is false (a 4xx such as 404)
\*   retryable  not ok and retryOnResponse(res) is true (408, 429, 5xx)
\*   error      fetch rejects with an error that is no AbortError
\*   timeout    the timer aborted the request
WSOutcomes == {"ok", "fatal", "retryable", "error", "timeout"}

\* The state at the call of send(msg), for the given options.  onSuccess
\* counts the calls of hooks.onSuccess, delay is the last computed delay.
WSNew(retries, jitter) ==
  [retries |-> retries, jitter |-> jitter, maxBackoffMs |-> WSMaxBackoffMs,
   attempt |-> 1, pc |-> "idle",
   calls |-> 0, lastError |-> None, outcomes |-> <<>>, onSuccess |-> 0, delay |-> 0]

\* The loop head of send: the condition, then `await fetch(...)`.  Leaving
\* the loop reaches the final `throw new Error("WebhookSendout failed ...")`.
WSLoopHead(w) ==
  IF w.attempt <= w.retries + 1
  THEN [w EXCEPT !.pc = "fetch", !.calls = @ + 1]
  ELSE [w EXCEPT !.pc = "rejected"]

\* The try block after a response that is ok or retryable arrived: sleep and
\* continue when it is not ok and attempts remain, else report success.
WSAfterResponse(w, outcome, ra, draw) ==
  IF outcome # "ok" /\ w.attempt <= w.retries
  THEN [w EXCEPT !.pc = "sleep",
                 !.delay = WSComputeDelay(w.attempt, TRUE, ra, w.jitter, draw, w.maxBackoffMs)]
  ELSE [w EXCEPT !.pc = "resolved", !.onSuccess = @ + 1]

\* The catch block: retryOnError is what this.retryOnError(e) returns.
WSCatch(w, outcome, retryOnError, draw) ==
  LET isAbort == outcome = "timeout"
      shouldRetry == w.attempt <= w.retries /\ ~isAbort /\ retryOnError
  IN IF shouldRetry
     THEN [w EXCEPT !.lastError = Some(outcome), !.pc = "sleep",
                    !.delay = WSComputeDelay(w.attempt, FALSE, NoRetryAfter, w.jitter, draw,
                                           w.maxBackoffMs)]
     ELSE [w EXCEPT !.lastError = Some(outcome), !.pc = "rejected"]

\* send(msg) is called: validateUrl throws for a bad url, else the loop starts.
WSCall ==
  /\ ws.pc = "idle"
  /\ \E urlOk \in BOOLEAN :
       ws' = IF urlOk THEN WSLoopHead(ws) ELSE [ws EXCEPT !.pc = "rejected"]
  /\ UNCHANGED <<oew, oewObs, tw, twObs, rl, bw, bp, balObs, sbw, bt, btObs, ms, tbw, tbwObs, pw, pwObs, bs, bsObs, am, amObs, mc, mcObs, ac>>

\* The awaited fetch settles and the loop body runs to its next await.
WSAttempt ==
  /\ ws.pc = "fetch"
  /\ \E outcome \in WSOutcomes, ra \in RetryAfters, draw \in JitterDraws,
        retryOnError \in BOOLEAN :
       LET w == [ws EXCEPT !.outcomes = Append(@, outcome)] IN
       ws' = IF outcome \in {"ok", "retryable"}
             THEN WSAfterResponse(w, outcome, ra, draw)
             ELSE WSCatch(w, outcome, retryOnError, draw)
  /\ UNCHANGED <<oew, oewObs, tw, twObs, rl, bw, bp, balObs, sbw, bt, btObs, ms, tbw, tbwObs, pw, pwObs, bs, bsObs, am, amObs, mc, mcObs, ac>>

\* The awaited sleep ends: the next iteration.
WSSleepDone ==
  /\ ws.pc = "sleep"
  /\ ws' = WSLoopHead([ws EXCEPT !.attempt = @ + 1])
  /\ UNCHANGED <<oew, oewObs, tw, twObs, rl, bw, bp, balObs, sbw, bt, btObs, ms, tbw, tbwObs, pw, pwObs, bs, bsObs, am, amObs, mc, mcObs, ac>>

WSNext ==
  \/ WSCall
  \/ WSAttempt
  \/ WSSleepDone

(***************************************************************************)
(* TokenBirthWatcher (src/bg_tasks/models/riskModel.ts)                     *)
(***************************************************************************)
\* The chain holds one mint-initialising transaction per slot 1..MaxSlot,
\* each with one 'Instruction: InitializeMint' log line; the signature of a
\* transaction is written as the number of its slot.
MaxSlot == 2
\* births counts the 'birth' events of a signature up to MaxBirths.
MaxBirths == 2

\* polls lists the poll() calls in progress: the RPC call pc each awaits, the
\* slot it read from getSlot and the signature infos sigs the for loop has
\* not gone through yet (the first one is the one being fetched).
TBWNew == [lastSeenSlot |-> 0, intervalHandle |-> FALSE, polls |-> <<>>]

\* slot: the chain's confirmed slot; births: 'birth' events per signature.
TBWObsNew == [slot |-> 0, births |-> [s \in 1..MaxSlot |-> 0]]

\* A transaction lands on the chain in the next slot.
TBWLand ==
  /\ tbwObs.slot < MaxSlot
  /\ tbwObs' = [tbwObs EXCEPT !.slot = @ + 1]
  /\ UNCHANGED <<tbw, oew, oewObs, tw, twObs, bw, bp, balObs, rl, ws, sbw, bt, btObs, ms, pw, pwObs, bs, bsObs, am, amObs, mc, mcObs, ac>>

\* poll() up to its first await.
TBWPoll(w) ==
  [w EXCEPT !.polls = Append(@, [pc |-> "getSlot", slot |-> 0, sigs |-> <<>>])]

\* start()
TBWStart ==
  /\ ~tbw.intervalHandle
  /\ Len(tbw.polls) < MaxInFlight
  /\ tbw' = [TBWPoll(tbw) EXCEPT !.intervalHandle = TRUE]
  /\ UNCHANGED <<tbwObs, oew, oewObs, tw, twObs, bw, bp, balObs, rl, ws, sbw, bt, btObs, ms, pw, pwObs, bs, bsObs, am, amObs, mc, mcObs, ac>>

\* stop()
TBWStop ==
  /\ tbw.intervalHandle
  /\ tbw' = [tbw EXCEPT !.intervalHandle = FALSE]
  /\ UNCHANGED <<tbwObs, oew, oewObs, tw, twObs, bw, bp, balObs, rl, ws, sbw, bt, btObs, ms, pw, pwObs, bs, bsObs, am, amObs, mc, mcObs, ac>>

\* A fire of the interval timer.
TBWTimerFire ==
  /\ tbw.intervalHandle
  /\ Len(tbw.polls) < MaxInFlight
  /\ tbw' = TBWPoll(tbw)
  /\ UNCHANGED <<tbwObs, oew, oewObs, tw, twObs, bw, bp, balObs, rl, ws, sbw, bt, btObs, ms, pw, pwObs, bs, bsObs, am, amObs, mc, mcObs, ac>>

\* getSlot('confirmed') answered poll i.
TBWGetSlot ==
  /\ \E i \in DOMAIN tbw.polls :
       /\ tbw.polls[i].pc = "getSlot"
       /\ tbw' = [tbw EXCEPT !.polls[i] = [pc |-> "getSignaturesForAddress",
                                           slot |-> tbwObs.slot, sigs |-> <<>>]]
  /\ UNCHANGED <<tbwObs, oew, oewObs, tw, twObs, bw, bp, balObs, rl, ws, sbw, bt, btObs, ms, pw, pwObs, bs, bsObs, am, amObs, mc, mcObs, ac>>

\* The signatures of the program, newest first.
RECURSIVE Signatures(_)
Signatures(slot) == IF slot = 0 THEN <<>> ELSE <<slot>> \o Signatures(slot - 1)

\* `if (info.slot <= this.lastSeenSlot) continue`
RECURSIVE SkipSeenSlots(_, _)
SkipSeenSlots(sigs, lastSeenSlot) ==
  IF sigs = <<>> THEN <<>>
  ELSE IF Head(sigs) <= lastSeenSlot THEN SkipSeenSlots(Tail(sigs), lastSeenSlot)
       ELSE sigs

\* The for loop of poll i over sigs up to its next await, or to the end of
\* poll(), which stores the slot read at its start.
TBWLoop(w, i, sigs) ==
  LET rest == SkipSeenSlots(sigs, w.lastSeenSlot) IN
  IF rest = <<>>
  THEN [w EXCEPT !.lastSeenSlot = w.polls[i].slot, !.polls = Without(@, i)]
  ELSE [w EXCEPT !.polls[i].pc = "getParsedConfirmedTransaction",
                 !.polls[i].sigs = rest]

\* getSignaturesForAddress answered poll i.
TBWGetSignatures ==
  /\ \E i \in DOMAIN tbw.polls :
       /\ tbw.polls[i].pc = "getSignaturesForAddress"
       /\ tbw' = TBWLoop(tbw, i, Signatures(tbwObs.slot))
  /\ UNCHANGED <<tbwObs, oew, oewObs, tw, twObs, bw, bp, balObs, rl, ws, sbw, bt, btObs, ms, pw, pwObs, bs, bsObs, am, amObs, mc, mcObs, ac>>

\* getParsedConfirmedTransaction answered poll i: 'birth' is emitted for the
\* signature and the loop goes on.
TBWGetTransaction ==
  /\ \E i \in DOMAIN tbw.polls :
       LET p == tbw.polls[i] IN
       /\ p.pc = "getParsedConfirmedTransaction"
       /\ tbwObs' = [tbwObs EXCEPT !.births[Head(p.sigs)] = Min(@ + 1, MaxBirths)]
       /\ tbw' = TBWLoop(tbw, i, Tail(p.sigs))
  /\ UNCHANGED <<oew, oewObs, tw, twObs, bw, bp, balObs, rl, ws, sbw, bt, btObs, ms, pw, pwObs, bs, bsObs, am, amObs, mc, mcObs, ac>>

\* The RPC call poll i awaits rejects: poll() rejects, 'error' is emitted.
TBWRpcFail ==
  /\ \E i \in DOMAIN tbw.polls :
       tbw' = [tbw EXCEPT !.polls = Without(@, i)]
  /\ UNCHANGED <<tbwObs, oew, oewObs, tw, twObs, bw, bp, balObs, rl, ws, sbw, bt, btObs, ms, pw, pwObs, bs, bsObs, am, amObs, mc, mcObs, ac>>

TBWNext ==
  \/ TBWLand
  \/ TBWStart
  \/ TBWStop
  \/ TBWTimerFire
  \/ TBWGetSlot
  \/ TBWGetSignatures
  \/ TBWGetTransaction
  \/ TBWRpcFail

(***************************************************************************)
(* PriceWatcher (src/unnamed/part_002)                                      *)
(***************************************************************************)
PWSymbols == <<"SOL", "ETH">>
\* The prices fetchPrice answers with.
PWPrices == {100, 101, 200}
\* thresholdPct: the constructor's default and a larger one.
PWThresholdPct == 1
PWThresholdOptions == {PWThresholdPct, 50}

\* lastPrices: None for a symbol the Map does not hold.  armed: the number
\* of interval timers that are armed; lastArmed: whether the one intervalId
\* refers to is among them.  runs: the position in symbols of each interval
\* callback that awaits fetchPrice.
PWNew(thresholdPct) ==
  [lastPrices |-> [k \in Range(PWSymbols) |-> None], thresholdPct |-> thresholdPct,
   armed |-> 0, lastArmed |-> FALSE, runs |-> <<>>]

\* prev: the price fetched last for each symbol; missed: a fetched price
\* differed from prev by thresholdPct percent or more and onAlert was not
\* called with the two.
PWObsNew == [prev |-> [k \in Range(PWSymbols) |-> None], missed |-> FALSE]

\* start(onAlert): no guard against a second call; every call seeds
\* lastPrices with 0 and arms one more interval timer.
PWStart ==
  /\ pw.armed < MaxTimers
  /\ pw' = [pw EXCEPT !.lastPrices = [k \in Range(PWSymbols) |-> Some(0)],
                      !.armed = @ + 1, !.lastArmed = TRUE]
  /\ UNCHANGED <<pwObs, oew, oewObs, tw, twObs, bw, bp, balObs, rl, ws, sbw, bt, btObs, ms, tbw, tbwObs, bs, bsObs, am, amObs, mc, mcObs, ac>>

\* stop(): clearInterval of the timer intervalId refers to.
PWStop ==
  /\ pw.lastArmed
  /\ pw' = [pw EXCEPT !.armed = @ - 1, !.lastArmed = FALSE]
  /\ UNCHANGED <<pwObs, oew, oewObs, tw, twObs, bw, bp, balObs, rl, ws, sbw, bt, btObs, ms, tbw, tbwObs, bs, bsObs, am, amObs, mc, mcObs, ac>>

\* A fire of an interval timer: the callback runs up to its first await.
PWTimerFire ==
  /\ pw.armed > 0
  /\ Len(pw.runs) < MaxInFlight
  /\ pw' = [pw EXCEPT !.runs = Append(@, 1)]
  /\ UNCHANGED <<pwObs, oew, oewObs, tw, twObs, bw, bp, balObs, rl, ws, sbw, bt, btObs, ms, tbw, tbwObs, bs, bsObs, am, amObs, mc, mcObs, ac>>

\* |price - old| / old * 100 >= pct for old > 0, without the division.
ChangeAtLeast(old, price, pct) ==
  (IF price >= old THEN price - old ELSE old - price) * 100 >= pct * old

\* The callback after fetchPrice answered price for sym: whether it calls
\* onAlert (with old and price) and stores price.
\* `old > 0 ? ((price - old) / old) * 100 : 0`, then `abs(change) >= thresholdPct`
PWAlerts(w, sym, price) ==
  LET old == IF w.lastPrices[sym] = None THEN price ELSE w.lastPrices[sym][1]
  IN IF old > 0 THEN ChangeAtLeast(old, price, w.thresholdPct)
     ELSE 0 >= w.thresholdPct

\* The for loop of run i goes to the next symbol or ends.
PWAdvance(w, i) ==
  IF w.runs[i] + 1 > Len(PWSymbols) THEN [w EXCEPT !.runs = Without(@, i)]
  ELSE [w EXCEPT !.runs[i] = @ + 1]

PWFetchOk ==
  /\ \E i \in DOMAIN pw.runs, price \in PWPrices :
       LET sym == PWSymbols[pw.runs[i]]
           old == IF pw.lastPrices[sym] = None THEN price ELSE pw.lastPrices[sym][1]
           alerts == PWAlerts(pw, sym, price)
           stored == IF alerts THEN [pw EXCEPT !.lastPrices[sym] = Some(price)] ELSE pw
           prev == pwObs.prev[sym]
       IN /\ pw' = PWAdvance(stored, i)
          /\ pwObs' = [pwObs EXCEPT
               !.prev[sym] = Some(price),
               !.missed = @ \/ (IF prev = None THEN FALSE
                                ELSE /\ ChangeAtLeast(prev[1], price, pw.thresholdPct)
                                     /\ ~(alerts /\ old = prev[1]))]
  /\ UNCHANGED <<oew, oewObs, tw, twObs, bw, bp, balObs, rl, ws, sbw, bt, btObs, ms, tbw, tbwObs, bs, bsObs, am, amObs, mc, mcObs, ac>>

\* fetchPrice rejected: the catch ignores it.
PWFetchFail ==
  /\ \E i \in DOMAIN pw.runs : pw' = PWAdvance(pw, i)
  /\ UNCHANGED <<pwObs, oew, oewObs, tw, twObs, bw, bp, balObs, rl, ws, sbw, bt, btObs, ms, tbw, tbwObs, bs, bsObs, am, amObs, mc, mcObs, ac>>

PWNext ==
  \/ PWStart
  \/ PWStop
  \/ PWTimerFire
  \/ PWFetchOk
  \/ PWFetchFail

(***************************************************************************)
(* BalanceService (src/unnamed/part_000), with the default no-op hooks      *)
(***************************************************************************)
\* The getBalance calls that await a promise at one time.
MaxCallers == 2
\* The balances and the errors fetchBalanceOnChain ends with.
BSBalances == {10, 15}
BSErrors == {"E1", "E2"}

\* cache: per address None or the entry, where fresh tells whether
\* now - fetchedAt < cacheTtlMs.  inFlight: per address None or the promise
\* stored, written as the id of the chain it belongs to.  chains: the
\* promise chains fetchWithRetries(...).then(...).finally(...) that have not
\* settled: pc is where the chain stands, lastErr the error caught last,
\* result what fetchWithRetries settled with.  callers: the getBalance calls
\* awaiting a promise.
BSNew(retries) ==
  [cache |-> [a \in Addrs |-> None], inFlight |-> [a \in Addrs |-> None],
   retries |-> retries, chains |-> <<>>, callers |-> <<>>]

\* settled: how the chain that settled in the last step ended.
BSObsNew == [settled |-> None]

\* `entry && now - entry.fetchedAt < this.cacheTtlMs`
BSCached(b, address) ==
  IF b.cache[address] = None THEN FALSE ELSE b.cache[address][1].fresh

\* `this.inFlight.has(address)` replaced by false
HasInFlightNever(b, address) == FALSE

\* `this.inFlight.has(address)`
HasInFlight(b, address) == b.inFlight[address] # None

\* An id no chain and no caller uses.
BSFreshId(b) ==
  CHOOSE id \in 1..(Len(b.chains) + Len(b.callers) + 1) :
    /\ \A i \in DOMAIN b.chains : b.chains[i].id # id
    /\ \A c \in DOMAIN b.callers : b.callers[c].promise # id

\* getBalance(address)
BSGetBalance ==
  /\ \E address \in Addrs :
       IF BSCached(bs, address) THEN bs' = bs
       ELSE /\ Len(bs.callers) < MaxCallers
            /\ IF HasInFlight(bs, address)
               THEN bs' = [bs EXCEPT !.callers =
                             Append(@, [address |-> address,
                                        promise |-> bs.inFlight[address][1]])]
               ELSE LET id == BSFreshId(bs) IN
                    bs' = [bs EXCEPT
                      !.chains = Append(@, [id |-> id, address |-> address,
                                            attempt |-> 1, pc |-> "fetch",
                                            lastErr |-> None, result |-> None]),
                      !.inFlight[address] = Some(id),
                      !.callers = Append(@, [address |-> address, promise |-> id])]
  /\ bsObs' = BSObsNew
  /\ UNCHANGED <<oew, oewObs, tw, twObs, bw, bp, balObs, rl, ws, sbw, bt, btObs, ms, tbw, tbwObs, pw, pwObs, am, amObs, mc, mcObs, ac>>

\* clearCache(address) and clearCache()
BSClearCache ==
  /\ \/ \E address \in Addrs : bs' = [bs EXCEPT !.cache[address] = None]
     \/ bs' = [bs EXCEPT !.cache = [a \in Addrs |-> None]]
  /\ bsObs' = BSObsNew
  /\ UNCHANGED <<oew, oewObs, tw, twObs, bw, bp, balObs, rl, ws, sbw, bt, btObs, ms, tbw, tbwObs, pw, pwObs, am, amObs, mc, mcObs, ac>>

\* Time passes: an entry becomes older than cacheTtlMs.
BSExpire ==
  /\ \E address \in Addrs :
       /\ BSCached(bs, address)
       /\ bs' = [bs EXCEPT !.cache[address][1].fresh = FALSE]
  /\ bsObs' = BSObsNew
  /\ UNCHANGED <<oew, oewObs, tw, twObs, bw, bp, balObs, rl, ws, sbw, bt, btObs, ms, tbw, tbwObs, pw, pwObs, am, amObs, mc, mcObs, ac>>

\* fetchBalanceOnChain resolved in chain i: fetchWithRetries returns balance.
BSFetchOk ==
  /\ \E i \in DOMAIN bs.chains, balance \in BSBalances :
       /\ bs.chains[i].pc = "fetch"
       /\ bs' = [bs EXCEPT !.chains[i].pc = "then",
                           !.chains[i].result = Some([rejected |-> FALSE, value |-> balance])]
  /\ bsObs' = BSObsNew
  /\ UNCHANGED <<oew, oewObs, tw, twObs, bw, bp, balObs, rl, ws, sbw, bt, btObs, ms, tbw, tbwObs, pw, pwObs, am, amObs, mc, mcObs, ac>>

\* The catch of fetchWithRetries for err at the given attempt: a delay and
\* another attempt while attempt <= retries, else err is thrown, which skips
\* the then callback.
BSCatch(chain, err, retries) ==
  IF chain.attempt <= retries
  THEN [chain EXCEPT !.pc = "delay", !.lastErr = Some(err)]
  ELSE [chain EXCEPT !.pc = "finally", !.lastErr = Some(err),
                     !.result = Some([rejected |-> TRUE, value |-> err])]

BSFetchFail ==
  /\ \E i \in DOMAIN bs.chains, err \in BSErrors :
       /\ bs.chains[i].pc = "fetch"
       /\ bs' = [bs EXCEPT !.chains[i] = BSCatch(@, err, bs.retries)]
  /\ bsObs' = BSObsNew
  /\ UNCHANGED <<oew, oewObs, tw, twObs, bw, bp, balObs, rl, ws, sbw, bt, btObs, ms, tbw, tbwObs, pw, pwObs, am, amObs, mc, mcObs, ac>>

\* `await this.delay(this.backoffMs * attempt); continue`
BSDelayDone ==
  /\ \E i \in DOMAIN bs.chains :
       /\ bs.chains[i].pc = "delay"
       /\ bs' = [bs EXCEPT !.chains[i].pc = "fetch", !.chains[i].attempt = @ + 1]
  /\ bsObs' = BSObsNew
  /\ UNCHANGED <<oew, oewObs, tw, twObs, bw, bp, balObs, rl, ws, sbw, bt, btObs, ms, tbw, tbwObs, pw, pwObs, am, amObs, mc, mcObs, ac>>

\* The then callback of chain i: the balance is cached.
BSThen ==
  /\ \E i \in DOMAIN bs.chains :
       LET chain == bs.chains[i] IN
       /\ chain.pc = "then"
       /\ bs' = [bs EXCEPT
            !.cache[chain.address] = Some([balance |-> chain.result[1].value,
                                           fresh |-> TRUE]),
            !.chains[i].pc = "finally"]
  /\ bsObs' = BSObsNew
  /\ UNCHANGED <<oew, oewObs, tw, twObs, bw, bp, balObs, rl, ws, sbw, bt, btObs, ms, tbw, tbwObs, pw, pwObs, am, amObs, mc, mcObs, ac>>

\* The finally callback of chain i kept from deleting the in-flight entry
\* when the chain rejected.
BSSettleOnlyOnSuccess(b, i) ==
  LET chain == b.chains[i] IN
  [b EXCEPT !.inFlight[chain.address] = IF chain.result[1].rejected THEN @ ELSE None,
            !.chains = Without(@, i),
            !.callers = SelectSeq(@, LAMBDA c : c.promise # chain.id)]

\* The finally callback of chain i deletes the address's in-flight entry;
\* then the promise settles for the callers that await it.
BSSettle(b, i) ==
  LET chain == b.chains[i] IN
  [b EXCEPT !.inFlight[chain.address] = None,
            !.chains = Without(@, i),
            !.callers = SelectSeq(@, LAMBDA c : c.promise # chain.id)]

BSFinally ==
  /\ \E i \in DOMAIN bs.chains :
       LET chain == bs.chains[i] IN
       /\ chain.pc = "finally"
       /\ bs' = BSSettle(bs, i)
       /\ bsObs' = [settled |-> Some(
            [address |-> chain.address, attempts |-> chain.attempt,
             rejected |-> chain.result[1].rejected, value |-> chain.result[1].value,
             lastErr |-> chain.lastErr,
             receivers |-> Cardinality({c \in DOMAIN bs.callers :
                                          bs.callers[c].promise = chain.id})])]
  /\ UNCHANGED <<oew, oewObs, tw, twObs, bw, bp, balObs, rl, ws, sbw, bt, btObs, ms, tbw, tbwObs, pw, pwObs, am, amObs, mc, mcObs, ac>>

BSNext ==
  \/ BSGetBalance
  \/ BSClearCache
  \/ BSExpire
  \/ BSFetchOk
  \/ BSFetchFail
  \/ BSDelayDone
  \/ BSThen
  \/ BSFinally

(***************************************************************************)
(* AlertManager (src/tokenlab/dexwatch/MarketDataFetcher.ts)                *)
(***************************************************************************)
\* cooldownMs and the largest alert timestamp, in one unit of time.
AMCooldownMs == 2
AMMaxTimestamp == 3

\* The symbols callers pass and the key the default normalizer
\* (trim, then upper case) gives each.
AMSymbols == {"sol", " SOL", "eth"}
normalize(s) == IF s = "eth" THEN "ETH" ELSE "SOL"
AMKeys == {normalize(s) : s \in AMSymbols}

AMMinChanges == {1, 5}
AMRules == [symbol : AMSymbols, minChangePct : AMMinChanges]
\* Partial<AlertRule>: None for a field the patch does not have.
AMPatches == [symbol : {None} \cup {Some(s) : s \in AMSymbols},
              minChangePct : {None} \cup {Some(m) : m \in AMMinChanges}]
AMAlerts == [symbol : AMSymbols, changePct : {0, 5}, timestamp : 0..AMMaxTimestamp]

\* managed: per key None or the ManagedAlert (triggerCount, which no
\* decision reads, is left out).
AMNew == [managed |-> [k \in AMKeys |-> None], cooldownMs |-> AMCooldownMs]

\* fired: per key the timestamps of the alerts handleAlert returned true
\* for; tooClose: one of them was less than cooldownMs from an earlier one.
AMObsNew == [fired |-> [k \in AMKeys |-> {}], tooClose |-> FALSE]

\* addRule(rule)
addRule(m, rule) ==
  [m EXCEPT !.managed[normalize(rule.symbol)] =
     Some([rule |-> [symbol |-> normalize(rule.symbol),
                     minChangePct |-> rule.minChangePct],
           lastTriggered |-> 0])]

\* updateRule(symbol, patch): the manager after the call and what it returns.
updateRule(m, symbol, patch) ==
  LET key == normalize(symbol)
      current == m.managed[key]
  IN IF current = None THEN [manager |-> m, returns |-> FALSE]
     ELSE LET nextRule ==
                [symbol |-> IF patch.symbol # None THEN normalize(patch.symbol[1])
                            ELSE current[1].rule.symbol,
                 minChangePct |-> IF patch.minChangePct # None THEN patch.minChangePct[1]
                                  ELSE current[1].rule.minChangePct]
              set == [m EXCEPT !.managed[nextRule.symbol] =
                        Some([rule |-> nextRule,
                              lastTriggered |-> current[1].lastTriggered])]
          IN [manager |-> IF nextRule.symbol # key
                          THEN [set EXCEPT !.managed[key] = None] ELSE set,
              returns |-> TRUE]

\* upsertRule(rule)
upsertRule(m, rule) ==
  LET patch == [symbol |-> Some(rule.symbol), minChangePct |-> Some(rule.minChangePct)]
      updated == updateRule(m, rule.symbol, patch)
  IN IF updated.returns THEN updated.manager ELSE addRule(m, rule)

AMAddRule ==
  /\ \E rule \in AMRules : am' = addRule(am, rule)
  /\ UNCHANGED <<amObs, oew, oewObs, tw, twObs, bw, bp, balObs, rl, ws, sbw, bt, btObs, ms, tbw, tbwObs, pw, pwObs, bs, bsObs, mc, mcObs, ac>>

AMUpdateRule ==
  /\ \E symbol \in AMSymbols, patch \in AMPatches :
       am' = updateRule(am, symbol, patch).manager
  /\ UNCHANGED <<amObs, oew, oewObs, tw, twObs, bw, bp, balObs, rl, ws, sbw, bt, btObs, ms, tbw, tbwObs, pw, pwObs, bs, bsObs, mc, mcObs, ac>>

AMUpsertRule ==
  /\ \E rule \in AMRules : am' = upsertRule(am, rule)
  /\ UNCHANGED <<amObs, oew, oewObs, tw, twObs, bw, bp, balObs, rl, ws, sbw, bt, btObs, ms, tbw, tbwObs, pw, pwObs, bs, bsObs, mc, mcObs, ac>>

\* shouldTrigger(rule, alert) for finite numbers
shouldTrigger(rule, alert) ==
  IF rule.minChangePct < 0 THEN FALSE
  ELSE (IF alert.changePct < 0 THEN -alert.changePct ELSE alert.changePct)
          >= rule.minChangePct

\* handleAlert(alert) without force: the manager after the call and what it
\* returns.
handleAlert(m, alert) ==
  LET key == normalize(alert.symbol)
      ma == m.managed[key]
  IN IF ma = None THEN [manager |-> m, returns |-> FALSE]
     ELSE LET now == alert.timestamp
              elapsed == now - ma[1].lastTriggered
          IN IF elapsed < m.cooldownMs THEN [manager |-> m, returns |-> FALSE]
             ELSE IF shouldTrigger(ma[1].rule, alert)
                  THEN [manager |-> [m EXCEPT !.managed[key][1].lastTriggered = now],
                        returns |-> TRUE]
                  ELSE [manager |-> m, returns |-> FALSE]

AMHandleAlert ==
  /\ \E alert \in AMAlerts :
       LET handled == handleAlert(am, alert)
           key == normalize(alert.symbol)
       IN /\ am' = handled.manager
          /\ amObs' = IF handled.returns
                      THEN [fired |-> [amObs.fired EXCEPT ![key] = @ \cup {alert.timestamp}],
                            tooClose |-> amObs.tooClose \/
                              \E t \in amObs.fired[key] :
                                /\ alert.timestamp - t < am.cooldownMs
                                /\ t - alert.timestamp < am.cooldownMs]
                      ELSE amObs
  /\ UNCHANGED <<oew, oewObs, tw, twObs, bw, bp, balObs, rl, ws, sbw, bt, btObs, ms, tbw, tbwObs, pw, pwObs, bs, bsObs, mc, mcObs, ac>>

AMNext ==
  \/ AMAddRule
  \/ AMUpdateRule
  \/ AMUpsertRule
  \/ AMHandleAlert

(***************************************************************************)
(* MetricsCache (src/unnamed/part_006)                                      *)
(***************************************************************************)
\* Time in units of retentionMs / MCRetention; the clock runs up to MCMaxNow.
MCRetention == 2
MCMaxNow == 3
\* maxPerKey is 1..MCMaxPerKey.
MCMaxPerKey == 2
\* addMany merges a group of this length or more, and inserts one by one
\* below it.
MergeThreshold == 16

MCKeys == {"cpu", "mem"}
\* The entries callers insert.
MCTimestamps == {0, 1, 2}
MCEntries == [key : MCKeys, value : {7}, timestamp : MCTimestamps]

RECURSIVE Repeat(_, _)
Repeat(s, n) == IF n = 0 THEN <<>> ELSE s \o Repeat(s, n - 1)

\* The arrays addMany is called with: the short ones, and groups of one key
\* that reach MergeThreshold.
MCShortBatches == UNION {[1..n -> MCEntries] : n \in {0, 1, 2}}
MCLongBatches ==
  {Repeat(<<a, b>>, MergeThreshold \div 2) :
     <<a, b>> \in {p \in MCEntries \X MCEntries : p[1].key = p[2].key}}

\* store: per key None, or the array the Map holds for it.
MCNew(maxPerKey) ==
  [store |-> [k \in MCKeys |-> None], maxPerKey |-> maxPerKey,
   retentionMs |-> MCRetention, now |-> 0]

\* touched: the keys of the entries the last call inserted, when the last
\* call was add or addMany.
MCObsNew == [touched |-> {}]

\* lowerBoundByTs(arr, targetTs): the number of entries before the first
\* one with timestamp >= targetTs, by bisection.
RECURSIVE Bisect(_, _, _, _)
Bisect(arr, targetTs, lo, hi) ==
  IF lo >= hi THEN lo
  ELSE LET mid == (lo + hi) \div 2 IN
       IF arr[mid + 1].timestamp < targetTs THEN Bisect(arr, targetTs, mid + 1, hi)
       ELSE Bisect(arr, targetTs, lo, mid)

lowerBoundByTs(arr, targetTs) == Bisect(arr, targetTs, 0, Len(arr))

\* arr.push(e) whatever the timestamps.
insertAtEnd(arr, e) == Append(arr, e)

\* insertSortedByTs(arr, e)
insertSortedByTs(arr, e) ==
  IF arr = <<>> THEN Append(arr, e)
  ELSE IF e.timestamp >= arr[Len(arr)].timestamp THEN Append(arr, e)
  ELSE LET i == lowerBoundByTs(arr, e.timestamp) IN
       SubSeq(arr, 1, i) \o <<e>> \o SubSeq(arr, i + 1, Len(arr))

RECURSIVE InsertAll(_, _)
InsertAll(arr, group) ==
  IF group = <<>> THEN arr
  ELSE InsertAll(insertSortedByTs(arr, Head(group)), Tail(group))

\* group.sort((a, b) => a.timestamp - b.timestamp), which is stable.
RECURSIVE SortGroup(_)
SortGroup(group) ==
  IF group = <<>> THEN <<>>
  ELSE LET rest == SortGroup(Tail(group))
           e == Head(group)
           n == Cardinality({k \in DOMAIN rest : rest[k].timestamp < e.timestamp})
       IN SubSeq(rest, 1, n) \o <<e>> \o SubSeq(rest, n + 1, Len(rest))

\* The merge loop of mergeSorted.
RECURSIVE Merge(_, _)
Merge(dst, src) ==
  IF dst = <<>> THEN src
  ELSE IF src = <<>> THEN dst
  ELSE IF Head(dst).timestamp <= Head(src).timestamp
       THEN <<Head(dst)>> \o Merge(Tail(dst), src)
       ELSE <<Head(src)>> \o Merge(dst, Tail(src))

\* mergeSorted(dst, src)
mergeSorted(dst, src) ==
  IF dst = <<>> THEN dst \o src
  ELSE IF src[1].timestamp >= dst[Len(dst)].timestamp THEN dst \o src
  ELSE Merge(dst, src)

\* enforceCaps(list)
enforceCaps(list, maxPerKey) ==
  LET excess == Len(list) - maxPerKey IN
  IF excess > 0 THEN SubSeq(list, excess + 1, Len(list)) ELSE list

\* pruneKey(key)
pruneKey(c, key) ==
  IF c.store[key] = None THEN c
  ELSE LET list == c.store[key][1] IN
       IF list = <<>> THEN c
       ELSE LET horizon == c.now - c.retentionMs
                i == lowerBoundByTs(list, horizon + 1)
                kept == enforceCaps(SubSeq(list, i + 1, Len(list)), c.maxPerKey)
            IN [c EXCEPT !.store[key] = IF kept = <<>> THEN None ELSE Some(kept)]

\* ensureList(key)
ensureList(c, key) == IF c.store[key] = None THEN <<>> ELSE c.store[key][1]

\* add(entry)
add(c, entry) ==
  LET list == insertSortedByTs(ensureList(c, entry.key), entry) IN
  pruneKey([c EXCEPT !.store[entry.key] = Some(enforceCaps(list, c.maxPerKey))],
           entry.key)

\* The keys of byKey in insertion order.
RECURSIVE GroupKeys(_)
GroupKeys(entries) ==
  IF entries = <<>> THEN <<>>
  ELSE LET e == Head(entries) IN
       <<e.key>> \o SelectSeq(GroupKeys(Tail(entries)), LAMBDA k : k # e.key)

\* The body of addMany's second loop for one key and its group.
AddGroup(c, key, group) ==
  LET list == ensureList(c, key)
      merged == IF Len(group) < MergeThreshold THEN InsertAll(list, group)
                ELSE mergeSorted(list, SortGroup(group))
  IN pruneKey([c EXCEPT !.store[key] = Some(enforceCaps(merged, c.maxPerKey))], key)

RECURSIVE AddGroups(_, _, _)
AddGroups(c, keys, entries) ==
  IF keys = <<>> THEN c
  ELSE AddGroups(AddGroup(c, Head(keys),
                          SelectSeq(entries, LAMBDA e : e.key = Head(keys))),
                 Tail(keys), entries)

\* addMany(entries)
addMany(c, entries) ==
  IF entries = <<>> THEN c ELSE AddGroups(c, GroupKeys(entries), entries)

MCAdd ==
  /\ \E entry \in MCEntries :
       /\ mc' = add(mc, entry)
       /\ mcObs' = [touched |-> {entry.key}]
  /\ UNCHANGED <<oew, oewObs, tw, twObs, bw, bp, balObs, rl, ws, sbw, bt, btObs, ms, tbw, tbwObs, pw, pwObs, bs, bsObs, am, amObs, ac>>

MCAddMany ==
  /\ \E entries \in MCShortBatches \cup MCLongBatches :
       /\ mc' = addMany(mc, entries)
       /\ mcObs' = [touched |-> {entries[k].key : k \in DOMAIN entries}]
  /\ UNCHANGED <<oew, oewObs, tw, twObs, bw, bp, balObs, rl, ws, sbw, bt, btObs, ms, tbw, tbwObs, pw, pwObs, bs, bsObs, am, amObs, ac>>

\* setMaxPerKey(n)
MCSetMaxPerKey ==
  /\ \E n \in 1..MCMaxPerKey : mc' = [mc EXCEPT !.maxPerKey = n]
  /\ mcObs' = MCObsNew
  /\ UNCHANGED <<oew, oewObs, tw, twObs, bw, bp, balObs, rl, ws, sbw, bt, btObs, ms, tbw, tbwObs, pw, pwObs, bs, bsObs, am, amObs, ac>>

\* deleteKey(key)
MCDeleteKey ==
  /\ \E key \in MCKeys : mc' = [mc EXCEPT !.store[key] = None]
  /\ mcObs' = MCObsNew
  /\ UNCHANGED <<oew, oewObs, tw, twObs, bw, bp, balObs, rl, ws, sbw, bt, btObs, ms, tbw, tbwObs, pw, pwObs, bs, bsObs, am, amObs, ac>>

RECURSIVE PruneKeys(_, _)
PruneKeys(c, keys) ==
  IF keys = {} THEN c
  ELSE LET key == CHOOSE k \in keys : TRUE IN PruneKeys(pruneKey(c, key), keys \ {key})

\* pruneAll()
MCPruneAll ==
  /\ mc' = PruneKeys(mc, {k \in MCKeys : mc.store[k] # None})
  /\ mcObs' = MCObsNew
  /\ UNCHANGED <<oew, oewObs, tw, twObs, bw, bp, balObs, rl, ws, sbw, bt, btObs, ms, tbw, tbwObs, pw, pwObs, bs, bsObs, am, amObs, ac>>

\* The clock (options.now) advances.
MCClock ==
  /\ mc.now < MCMaxNow
  /\ mc' = [mc EXCEPT !.now = @ + 1]
  /\ mcObs' = MCObsNew
  /\ UNCHANGED <<oew, oewObs, tw, twObs, bw, bp, balObs, rl, ws, sbw, bt, btObs, ms, tbw, tbwObs, pw, pwObs, bs, bsObs, am, amObs, ac>>

MCNext ==
  \/ MCAdd
  \/ MCAddMany
  \/ MCSetMaxPerKey
  \/ MCDeleteKey
  \/ MCPruneAll
  \/ MCClock

(***************************************************************************)
(* AgentCore.runWithMeta (src/unnamed/part_007): one call for a registered  *)
(* action, with no middleware and no abort signal                           *)
(***************************************************************************)
\* What action.run resolves with: a result with success true or false, or
\* nothing.
ACResults == {"success", "failure", "undefined"}

\* retries and timeoutMs are the call's options (hasTimeout: timeoutMs is a
\* positive number); errorListeners counts the listeners registered for
\* 'error'.  pc tells where the call stands; attempt is the loop variable
\* and attempts the counter execOnce increments.  execs lists the attempts
\* whose action.run has not settled.  outcome is the local variable, by
\* its success field; settled is None, or how the promise settled.
ACNew(retries, hasTimeout, errorListeners) ==
  [retries |-> retries, hasTimeout |-> hasTimeout,
   errorListeners |-> errorListeners,
   pc |-> "idle", attempt |-> 0, attempts |-> 0, execs |-> <<>>,
   outcome |-> [success |-> FALSE], settled |-> None]

\* withTimeout(execOnce, ...) up to the await inside action.run.
ACExecOnce(c) ==
  [c EXCEPT !.attempts = @ + 1, !.execs = Append(@, c.attempt), !.pc = "attempt"]

\* runWithMeta(rawParams, options) up to its first await.
ACRunWithMeta ==
  /\ ac.pc = "idle"
  /\ ac' = ACExecOnce(ac)
  /\ UNCHANGED <<oew, oewObs, tw, twObs, bw, bp, balObs, rl, ws, sbw, bt, btObs, ms, tbw, tbwObs, pw, pwObs, bs, bsObs, am, amObs, mc, mcObs>>

\* The code after the retry loop: with a failed outcome emit("error", ...)
\* runs, which throws the error when no listener is registered for 'error'.
ACFinish(c) ==
  IF ~c.outcome.success /\ c.errorListeners = 0
  THEN [c EXCEPT !.pc = "done", !.settled = Some([rejected |-> TRUE, success |-> FALSE,
                                                  attempts |-> c.attempts])]
  ELSE [c EXCEPT !.pc = "done",
                 !.settled = Some([rejected |-> FALSE, success |-> c.outcome.success,
                                   attempts |-> c.attempts])]

\* The catch block of the retry loop.
ACCatch(c) ==
  LET failed == [c EXCEPT !.outcome = [success |-> FALSE]] IN
  IF c.attempt < c.retries
  THEN ACExecOnce([failed EXCEPT !.attempt = @ + 1])
  ELSE ACFinish(failed)

\* Whether withTimeout's promise for the execution at position i is the one
\* the loop awaits and has not settled.
ACAwaited(c, i) == c.pc = "attempt" /\ c.execs[i] = c.attempt

\* action.run resolved for the execution at position i.
ACActionReturns ==
  /\ \E i \in DOMAIN ac.execs, result \in ACResults :
       LET ended == [ac EXCEPT !.execs = Without(@, i)] IN
       ac' = IF ACAwaited(ac, i)
             THEN ACFinish([ended EXCEPT !.outcome = [success |-> result = "success"]])
             ELSE ended
  /\ UNCHANGED <<oew, oewObs, tw, twObs, bw, bp, balObs, rl, ws, sbw, bt, btObs, ms, tbw, tbwObs, pw, pwObs, bs, bsObs, am, amObs, mc, mcObs>>

\* action.run rejected for the execution at position i.
ACActionThrows ==
  /\ \E i \in DOMAIN ac.execs :
       LET ended == [ac EXCEPT !.execs = Without(@, i)] IN
       ac' = IF ACAwaited(ac, i) THEN ACCatch(ended) ELSE ended
  /\ UNCHANGED <<oew, oewObs, tw, twObs, bw, bp, balObs, rl, ws, sbw, bt, btObs, ms, tbw, tbwObs, pw, pwObs, bs, bsObs, am, amObs, mc, mcObs>>

\* withTimeout's timer fires before work() settled: the promise rejects,
\* work() goes on.
ACTimeout ==
  /\ ac.hasTimeout
  /\ ac.pc = "attempt"
  /\ ac' = ACCatch(ac)
  /\ UNCHANGED <<oew, oewObs, tw, twObs, bw, bp, balObs, rl, ws, sbw, bt, btObs, ms, tbw, tbwObs, pw, pwObs, bs, bsObs, am, amObs, mc, mcObs>>

ACNext ==
  \/ ACRunWithMeta
  \/ ACActionReturns
  \/ ACActionThrows
  \/ ACTimeout

(***************************************************************************)
(* Specifications: one per class, the other instances left as constructed.  *)
(***************************************************************************)
OEWInit ==
  /\ oew = OEWNew
  /\ oewObs = OEWObsNew
  /\ tw = TWNew
  /\ twObs = TWObsNew
  /\ bw = BWNew
  /\ bp = BPNew
  /\ balObs = BalObsNew("BalanceWatcher")
  /\ rl = RLNew("TransactionWatcher", 0)
  /\ ws = WSNew(0, FALSE)
  /\ sbw = SBWNew
  /\ bt = BTNew
  /\ btObs = BTObsNew({})
  /\ ms = MSNew
  /\ tbw = TBWNew
  /\ pw = PWNew(PWThresholdPct)
  /\ pwObs = PWObsNew
  /\ bs = BSNew(0)
  /\ bsObs = BSObsNew
  /\ am = AMNew
  /\ amObs = AMObsNew
  /\ mc = MCNew(1)
  /\ mcObs = MCObsNew
  /\ ac = ACNew(0, FALSE, 0)
  /\ tbwObs = TBWObsNew

SpecOEW == OEWInit /\ [][OEWNext]_vars

SpecOEWCycle == OEWInit /\ [][OEWCycleNext]_vars

TWInit ==
  /\ tw = TWNew
  /\ twObs = TWObsNew
  /\ bw = BWNew
  /\ bp = BPNew
  /\ balObs = BalObsNew("BalanceWatcher")
  /\ oew = OEWNew
  /\ oewObs = OEWObsNew
  /\ rl = RLNew("TransactionWatcher", 0)
  /\ ws = WSNew(0, FALSE)
  /\ sbw = SBWNew
  /\ bt = BTNew
  /\ btObs = BTObsNew({})
  /\ ms = MSNew
  /\ tbw = TBWNew
  /\ pw = PWNew(PWThresholdPct)
  /\ pwObs = PWObsNew
  /\ bs = BSNew(0)
  /\ bsObs = BSObsNew
  /\ am = AMNew
  /\ amObs = AMObsNew
  /\ mc = MCNew(1)
  /\ mcObs = MCObsNew
  /\ ac = ACNew(0, FALSE, 0)
  /\ tbwObs = TBWObsNew

SpecTW == TWInit /\ [][TWNext]_vars

\* The scenario watches key X with one of the two classes.
BalInit ==
  /\ bw = BWNew
  /\ bp = BPNew
  /\ balObs \in {BalObsNew(subject) : subject \in Subjects}
  /\ oew = OEWNew
  /\ oewObs = OEWObsNew
  /\ tw = TWNew
  /\ twObs = TWObsNew
  /\ rl = RLNew("TransactionWatcher", 0)
  /\ ws = WSNew(0, FALSE)
  /\ sbw = SBWNew
  /\ bt = BTNew
  /\ btObs = BTObsNew({})
  /\ ms = MSNew
  /\ tbw = TBWNew
  /\ pw = PWNew(PWThresholdPct)
  /\ pwObs = PWObsNew
  /\ bs = BSNew(0)
  /\ bsObs = BSObsNew
  /\ am = AMNew
  /\ amObs = AMObsNew
  /\ mc = MCNew(1)
  /\ mcObs = MCObsNew
  /\ ac = ACNew(0, FALSE, 0)
  /\ tbwObs = TBWObsNew

SpecBalance == BalInit /\ [][BalNext]_vars

RLInit ==
  /\ \E variant \in Variants, retries \in 0..MaxRetries : rl = RLNew(variant, retries)
  /\ oew = OEWNew
  /\ oewObs = OEWObsNew
  /\ tw = TWNew
  /\ twObs = TWObsNew
  /\ bw = BWNew
  /\ bp = BPNew
  /\ balObs = BalObsNew("BalanceWatcher")
  /\ ws = WSNew(0, FALSE)
  /\ sbw = SBWNew
  /\ bt = BTNew
  /\ btObs = BTObsNew({})
  /\ ms = MSNew
  /\ tbw = TBWNew
  /\ pw = PWNew(PWThresholdPct)
  /\ pwObs = PWObsNew
  /\ bs = BSNew(0)
  /\ bsObs = BSObsNew
  /\ am = AMNew
  /\ amObs = AMObsNew
  /\ mc = MCNew(1)
  /\ mcObs = MCObsNew
  /\ ac = ACNew(0, FALSE, 0)
  /\ tbwObs = TBWObsNew

\* Every awaited fetch settles (the abort timer sees to it) and every sleep ends.
SpecRetry == RLInit /\ [][RLNext]_vars /\ WF_vars(RLNext)

WSInit ==
  /\ \E retries \in 0..MaxRetries, jitter \in BOOLEAN,
        maxBackoffMs \in MaxBackoffOptions :
       ws = [WSNew(retries, jitter) EXCEPT !.maxBackoffMs = maxBackoffMs]
  /\ oew = OEWNew
  /\ oewObs = OEWObsNew
  /\ tw = TWNew
  /\ twObs = TWObsNew
  /\ bw = BWNew
  /\ bp = BPNew
  /\ balObs = BalObsNew("BalanceWatcher")
  /\ rl = RLNew("TransactionWatcher", 0)
  /\ sbw = SBWNew
  /\ bt = BTNew
  /\ btObs = BTObsNew({})
  /\ ms = MSNew
  /\ tbw = TBWNew
  /\ pw = PWNew(PWThresholdPct)
  /\ pwObs = PWObsNew
  /\ bs = BSNew(0)
  /\ bsObs = BSObsNew
  /\ am = AMNew
  /\ amObs = AMObsNew
  /\ mc = MCNew(1)
  /\ mcObs = MCObsNew
  /\ ac = ACNew(0, FALSE, 0)
  /\ tbwObs = TBWObsNew

SpecWS == WSInit /\ [][WSNext]_vars

\* Every fetchWithRetry call settles, and an armed timer keeps firing.
SpecTWLive ==
  /\ TWInit
  /\ [][TWLiveNext]_vars
  /\ WF_vars(TWFetchOk \/ TWFetchFail)
  /\ WF_vars(TWTimerFire)

MSInit ==
  /\ ms = MSNew
  /\ tbw = TBWNew
  /\ pw = PWNew(PWThresholdPct)
  /\ pwObs = PWObsNew
  /\ bs = BSNew(0)
  /\ bsObs = BSObsNew
  /\ am = AMNew
  /\ amObs = AMObsNew
  /\ mc = MCNew(1)
  /\ mcObs = MCObsNew
  /\ ac = ACNew(0, FALSE, 0)
  /\ tbwObs = TBWObsNew
  /\ tw = TWNew
  /\ twObs = TWObsNew
  /\ bw = BWNew
  /\ bp = BPNew
  /\ balObs = BalObsNew("BalanceWatcher")
  /\ oew = OEWNew
  /\ oewObs = OEWObsNew
  /\ rl = RLNew("TransactionWatcher", 0)
  /\ ws = WSNew(0, FALSE)
  /\ sbw = SBWNew
  /\ bt = BTNew
  /\ btObs = BTObsNew({})

SpecMarkSeen == MSInit /\ [][MSNext]_vars

TWLifeInit ==
  /\ tw \in {TWConstructor(pollIntervalMs) : pollIntervalMs \in PollIntervalOptions}
  /\ twObs = TWObsListening
  /\ bw = BWNew
  /\ bp = BPNew
  /\ balObs = BalObsNew("BalanceWatcher")
  /\ oew = OEWNew
  /\ oewObs = OEWObsNew
  /\ rl = RLNew("TransactionWatcher", 0)
  /\ ws = WSNew(0, FALSE)
  /\ sbw = SBWNew
  /\ bt = BTNew
  /\ btObs = BTObsNew({})
  /\ ms = MSNew
  /\ tbw = TBWNew
  /\ pw = PWNew(PWThresholdPct)
  /\ pwObs = PWObsNew
  /\ bs = BSNew(0)
  /\ bsObs = BSObsNew
  /\ am = AMNew
  /\ amObs = AMObsNew
  /\ mc = MCNew(1)
  /\ mcObs = MCObsNew
  /\ ac = ACNew(0, FALSE, 0)
  /\ tbwObs = TBWObsNew

SpecTWLife == TWLifeInit /\ [][TWLifeNext]_vars

SBWInit ==
  /\ sbw = SBWNew
  /\ bt = BTNew
  /\ btObs = BTObsNew({})
  /\ ms = MSNew
  /\ tbw = TBWNew
  /\ pw = PWNew(PWThresholdPct)
  /\ pwObs = PWObsNew
  /\ bs = BSNew(0)
  /\ bsObs = BSObsNew
  /\ am = AMNew
  /\ amObs = AMObsNew
  /\ mc = MCNew(1)
  /\ mcObs = MCObsNew
  /\ ac = ACNew(0, FALSE, 0)
  /\ tbwObs = TBWObsNew
  /\ oew = OEWNew
  /\ oewObs = OEWObsNew
  /\ tw = TWNew
  /\ twObs = TWObsNew
  /\ bw = BWNew
  /\ bp = BPNew
  /\ balObs = BalObsNew("BalanceWatcher")
  /\ rl = RLNew("TransactionWatcher", 0)
  /\ ws = WSNew(0, FALSE)

SpecSBW == SBWInit /\ [][SBWNext]_vars

\* The provider fails for no address, or for one of the two.
BTInit ==
  /\ bt = BTNew
  /\ btObs \in {BTObsNew(failing) : failing \in {{}, {"X"}, {"Y"}}}
  /\ ms = MSNew
  /\ tbw = TBWNew
  /\ pw = PWNew(PWThresholdPct)
  /\ pwObs = PWObsNew
  /\ bs = BSNew(0)
  /\ bsObs = BSObsNew
  /\ am = AMNew
  /\ amObs = AMObsNew
  /\ mc = MCNew(1)
  /\ mcObs = MCObsNew
  /\ ac = ACNew(0, FALSE, 0)
  /\ tbwObs = TBWObsNew
  /\ sbw = SBWNew
  /\ oew = OEWNew
  /\ oewObs = OEWObsNew
  /\ tw = TWNew
  /\ twObs = TWObsNew
  /\ bw = BWNew
  /\ bp = BPNew
  /\ balObs = BalObsNew("BalanceWatcher")
  /\ rl = RLNew("TransactionWatcher", 0)
  /\ ws = WSNew(0, FALSE)

SpecBT == BTInit /\ [][BTNext]_vars

TBWInit ==
  /\ oew = OEWNew
  /\ oewObs = OEWObsNew
  /\ tw = TWNew
  /\ twObs = TWObsNew
  /\ bw = BWNew
  /\ bp = BPNew
  /\ balObs = BalObsNew("BalanceWatcher")
  /\ rl = RLNew("TransactionWatcher", 0)
  /\ ws = WSNew(0, FALSE)
  /\ sbw = SBWNew
  /\ bt = BTNew
  /\ btObs = BTObsNew({})
  /\ ms = MSNew
  /\ tbw = TBWNew
  /\ pw = PWNew(PWThresholdPct)
  /\ pwObs = PWObsNew
  /\ bs = BSNew(0)
  /\ bsObs = BSObsNew
  /\ am = AMNew
  /\ amObs = AMObsNew
  /\ mc = MCNew(1)
  /\ mcObs = MCObsNew
  /\ ac = ACNew(0, FALSE, 0)
  /\ tbwObs = TBWObsNew

SpecTBW == TBWInit /\ [][TBWNext]_vars

PWInit ==
  /\ oew = OEWNew
  /\ oewObs = OEWObsNew
  /\ tw = TWNew
  /\ twObs = TWObsNew
  /\ bw = BWNew
  /\ bp = BPNew
  /\ balObs = BalObsNew("BalanceWatcher")
  /\ rl = RLNew("TransactionWatcher", 0)
  /\ ws = WSNew(0, FALSE)
  /\ sbw = SBWNew
  /\ bt = BTNew
  /\ btObs = BTObsNew({})
  /\ ms = MSNew
  /\ tbw = TBWNew
  /\ tbwObs = TBWObsNew
  /\ \E thresholdPct \in PWThresholdOptions : pw = PWNew(thresholdPct)
  /\ pwObs = PWObsNew
  /\ bs = BSNew(0)
  /\ bsObs = BSObsNew
  /\ am = AMNew
  /\ amObs = AMObsNew
  /\ mc = MCNew(1)
  /\ mcObs = MCObsNew
  /\ ac = ACNew(0, FALSE, 0)

SpecPW == PWInit /\ [][PWNext]_vars

BSInit ==
  /\ oew = OEWNew
  /\ oewObs = OEWObsNew
  /\ tw = TWNew
  /\ twObs = TWObsNew
  /\ bw = BWNew
  /\ bp = BPNew
  /\ balObs = BalObsNew("BalanceWatcher")
  /\ rl = RLNew("TransactionWatcher", 0)
  /\ ws = WSNew(0, FALSE)
  /\ sbw = SBWNew
  /\ bt = BTNew
  /\ btObs = BTObsNew({})
  /\ ms = MSNew
  /\ tbw = TBWNew
  /\ tbwObs = TBWObsNew
  /\ pw = PWNew(PWThresholdPct)
  /\ pwObs = PWObsNew
  /\ \E retries \in {0, MaxRetries} : bs = BSNew(retries)
  /\ bsObs = BSObsNew
  /\ am = AMNew
  /\ amObs = AMObsNew
  /\ mc = MCNew(1)
  /\ mcObs = MCObsNew
  /\ ac = ACNew(0, FALSE, 0)

SpecBS == BSInit /\ [][BSNext]_vars

AMInit ==
  /\ oew = OEWNew
  /\ oewObs = OEWObsNew
  /\ tw = TWNew
  /\ twObs = TWObsNew
  /\ bw = BWNew
  /\ bp = BPNew
  /\ balObs = BalObsNew("BalanceWatcher")
  /\ rl = RLNew("TransactionWatcher", 0)
  /\ ws = WSNew(0, FALSE)
  /\ sbw = SBWNew
  /\ bt = BTNew
  /\ btObs = BTObsNew({})
  /\ ms = MSNew
  /\ tbw = TBWNew
  /\ tbwObs = TBWObsNew
  /\ pw = PWNew(PWThresholdPct)
  /\ pwObs = PWObsNew
  /\ bs = BSNew(0)
  /\ bsObs = BSObsNew
  /\ am = AMNew
  /\ amObs = AMObsNew
  /\ mc = MCNew(1)
  /\ mcObs = MCObsNew
  /\ ac = ACNew(0, FALSE, 0)

SpecAM == AMInit /\ [][AMNext]_vars

MCInit ==
  /\ oew = OEWNew
  /\ oewObs = OEWObsNew
  /\ tw = TWNew
  /\ twObs = TWObsNew
  /\ bw = BWNew
  /\ bp = BPNew
  /\ balObs = BalObsNew("BalanceWatcher")
  /\ rl = RLNew("TransactionWatcher", 0)
  /\ ws = WSNew(0, FALSE)
  /\ sbw = SBWNew
  /\ bt = BTNew
  /\ btObs = BTObsNew({})
  /\ ms = MSNew
  /\ tbw = TBWNew
  /\ tbwObs = TBWObsNew
  /\ pw = PWNew(PWThresholdPct)
  /\ pwObs = PWObsNew
  /\ bs = BSNew(0)
  /\ bsObs = BSObsNew
  /\ am = AMNew
  /\ amObs = AMObsNew
  /\ \E maxPerKey \in 1..MCMaxPerKey : mc = MCNew(maxPerKey)
  /\ mcObs = MCObsNew
  /\ ac = ACNew(0, FALSE, 0)

SpecMC == MCInit /\ [][MCNext]_vars

ACInit ==
  /\ oew = OEWNew
  /\ oewObs = OEWObsNew
  /\ tw = TWNew
  /\ twObs = TWObsNew
  /\ bw = BWNew
  /\ bp = BPNew
  /\ balObs = BalObsNew("BalanceWatcher")
  /\ rl = RLNew("TransactionWatcher", 0)
  /\ ws = WSNew(0, FALSE)
  /\ sbw = SBWNew
  /\ bt = BTNew
  /\ btObs = BTObsNew({})
  /\ ms = MSNew
  /\ tbw = TBWNew
  /\ tbwObs = TBWObsNew
  /\ pw = PWNew(PWThresholdPct)
  /\ pwObs = PWObsNew
  /\ bs = BSNew(0)
  /\ bsObs = BSObsNew
  /\ am = AMNew
  /\ amObs = AMObsNew
  /\ mc = MCNew(1)
  /\ mcObs = MCObsNew
  /\ \E retries \in 0..MaxRetries, hasTimeout \in BOOLEAN, errorListeners \in 0..MaxListeners :
       ac = ACNew(retries, hasTimeout, errorListeners)

SpecAC == ACInit /\ [][ACNext]_vars

(***************************************************************************)
(* Claims about OuterEventWatcher.                                          *)
(***************************************************************************)
\* C1 as stated: between two reset() calls no event id is emitted twice,
\* however many other ids were marked seen in between.
C1_EachIdEmittedOnce ==
  \A i, j \in DOMAIN oewObs.emitted :
     i # j => oewObs.emitted[i] # oewObs.emitted[j]

\* C1 amended: between two reset() calls an event id is emitted a second time
\* only after at least maxSeenIds other ids were marked seen (and emitted)
\* since its previous emission, which evicted it from the seen set.
C1_EmittedOncePerWindow ==
  \A i, j \in DOMAIN oewObs.emitted :
     (i < j /\ oewObs.emitted[i] = oewObs.emitted[j]) => j - i > MaxSeenIds

\* A repeated id was suppressed, and an evicted id came back and was emitted
\* again exactly maxSeenIds emissions later.
C1_Witness ==
  /\ oewObs.deduped
  /\ \E i \in DOMAIN oewObs.emitted :
        /\ i + MaxSeenIds + 1 \in DOMAIN oewObs.emitted
        /\ oewObs.emitted[i] = oewObs.emitted[i + MaxSeenIds + 1]

\* C2: while an address stays tracked, no transaction hash is emitted for it
\* a second time, whatever the listeners do.
C2_EachHashEmittedOnce == ~twObs.dupTx

\* C3 for OuterEventWatcher: at most one tick body awaits its fetch.
OEW_OneTickInFlight == oew.fetching <= 1

\* C4 as stated, for OuterEventWatcher: no "event" is emitted while the
\* watcher is stopped (between a stop() and the next start()).
C4_NoEventWhileStopped ==
  [][Len(oewObs'.emitted) > Len(oewObs.emitted) => oew.isRunning]_vars

\* C5: no tick of TransactionWatcher ends with a rejected promise, its
\* remaining addresses unfetched, because a fetch failed.
C5_FetchFailureNeverAbortsTick == ~twObs.failRejected

(***************************************************************************)
(* Claims about the retrying fetch loops.                                   *)
(***************************************************************************)
LastOutcome(r) == r.outcomes[Len(r.outcomes)]
RLDone == rl.pc \in {"returned", "thrown"}
TimeoutNotRetried == {"TransactionWatcher", "OuterEventWatcher"}

\* C6 as stated: in fetchWithRetry and getWithRetry an HTTP 404 response is
\* fatal: it ends the loop with that error, and when it answers the first
\* attempt the fetch was invoked exactly once and no delay was waited.
C6_Http404IsFatal ==
  (rl.variant \in TimeoutNotRetried /\ rl.outcomes # <<>>
     /\ LastOutcome(rl) = "http404")
  => /\ rl.pc = "thrown"
     /\ rl.lastErr = Some("http404")
     /\ (Len(rl.outcomes) = 1 => rl.calls = 1 /\ rl.sleeps = 0)

\* C7 as stated: in fetchWithRetry and getWithRetry a timed-out attempt is
\* followed by another attempt whenever attempts remain, and the timeout
\* error reaches the caller only after retries + 1 attempts.
C7_TimeoutIsRetried ==
  rl.variant \in TimeoutNotRetried
  => /\ (rl.outcomes # <<>> /\ LastOutcome(rl) = "timeout"
           /\ Len(rl.outcomes) <= rl.retries) => rl.pc \in {"sleep", "fetch"}
     /\ (rl.pc = "thrown" /\ rl.lastErr = Some("timeout")) => rl.calls = rl.retries + 1

\* C7 amended: in fetchWithRetry and getWithRetry a timed-out attempt is never
\* retried: it is the last attempt of the call, whatever its number, and the
\* timeout error reaches the caller right after it, with no delay waited.
C7_TimeoutEndsTheLoop ==
  \A i \in DOMAIN rl.outcomes :
     (rl.variant \in TimeoutNotRetried /\ rl.outcomes[i] = "timeout")
     => /\ i = Len(rl.outcomes)
        /\ rl.pc = "thrown"
        /\ rl.lastErr = Some("timeout")
        /\ rl.calls = i

\* The first attempt timed out while retries remained, and the call threw.
C7_Witness ==
  /\ rl.variant \in TimeoutNotRetried
  /\ rl.retries >= 1
  /\ rl.outcomes = <<"timeout">>
  /\ rl.pc = "thrown"

\* The safety half of C8: never more than retries + 1 fetch invocations, no
\* delay after the last one, a return only after an ok attempt, and a throw
\* that carries the error of the last attempt.
C8_Bounded ==
  /\ rl.calls <= rl.retries + 1
  /\ Len(rl.outcomes) <= rl.calls
  /\ rl.pc = "sleep" => rl.calls <= rl.retries
  /\ rl.pc = "returned" => LastOutcome(rl) = "ok"
  /\ rl.pc = "thrown" => /\ rl.outcomes # <<>>
                         /\ LastOutcome(rl) # "ok"
                         /\ rl.lastErr = Some(LastOutcome(rl))

\* C8: every retrying fetch loop (fetchWithRetry, getWithRetry, fetchJson)
\* ends after at most retries + 1 fetch invocations, whatever the responses,
\* network errors and timeouts, and then has returned a value or thrown the
\* last error.
C8_LoopTerminates == []C8_Bounded /\ <>RLDone

\* A call used its whole budget of retries + 1 invocations and threw.
C8_Witness ==
  /\ rl.retries = MaxRetries
  /\ rl.calls = rl.retries + 1
  /\ rl.pc = "thrown"
  /\ rl.sleeps = rl.retries

\* C27: with retries = 2 and no Retry-After header, HTTP 500 on attempts 1
\* and 2 and a success on attempt 3 make fetchWithRetry and getWithRetry
\* return after exactly 3 fetch invocations, having waited at least
\* backoffMs * 1^2 + backoffMs * 2^2 in all.
C27_RetrySuccess ==
  (/\ rl.variant \in TimeoutNotRetried
   /\ rl.retries = 2
   /\ ~rl.retryAfter
   /\ rl.outcomes = <<"http500", "http500", "ok">>)
  => /\ rl.pc = "returned"
     /\ rl.calls = 3
     /\ rl.sleeps = 2
     /\ rl.waited >= RLBackoffMs * 1 * 1 + RLBackoffMs * 2 * 2

\* Scenario B happened, with the smallest jitter: the call returned after
\* two HTTP 500 responses without Retry-After, having waited 5 * backoffMs.
C27_Witness ==
  /\ rl.variant \in TimeoutNotRetried
  /\ rl.retries = 2
  /\ ~rl.retryAfter
  /\ rl.outcomes = <<"http500", "http500", "ok">>
  /\ rl.pc = "returned"
  /\ rl.waited = 5 * RLBackoffMs

(***************************************************************************)
(* Claims about WebhookSendout.send.                                        *)
(***************************************************************************)
\* C9 as stated: send resolves, and calls onSuccess, only when the last
\* response was ok; retryable statuses on all retries + 1 attempts reject.
C9_ResolvesOnlyOnOk ==
  (ws.pc = "resolved" \/ ws.onSuccess > 0)
  => ws.outcomes[Len(ws.outcomes)] = "ok"

\* The number of fetched values that differ from the one fetched before.
PrevDiffs(hist) == Cardinality({i \in 2..Len(hist) : hist[i].v # hist[i - 1].v})

\* The number of fetched values that differ from the value the class holds
\* for the key when they arrive: it starts at initial, and is replaced by
\* each differing value unless (keepsOnThrow) the listener threw.
RECURSIVE StoredDiffs(_, _, _)
StoredDiffs(stored, hist, keepsOnThrow) ==
  IF hist = <<>> THEN 0
  ELSE LET e == Head(hist)
           differs == StrictNotEqual(stored, e.v)
       IN (IF differs THEN 1 ELSE 0)
          + StoredDiffs(IF differs /\ ~(keepsOnThrow /\ e.threw) THEN e.v ELSE stored,
                        Tail(hist), keepsOnThrow)

FetchedValues == [i \in DOMAIN balObs.hist |-> balObs.hist[i].v.v]
NoListenerThrew == \A i \in DOMAIN balObs.hist : ~balObs.hist[i].threw

C11_ChangeCarriesDifferentBalances ==
  (balObs.subject = "BalanceWatcher" /\ balObs.lastChange # None)
    => balObs.lastChange[1].newBalance # balObs.lastChange[1].oldBalance

\* C12: the seen set of OuterEventWatcher has at most maxSeenIds members
\* and holds exactly the ids of the eviction-order list.
C12_SeenIsBoundedAndMatchesOrder ==
  /\ Cardinality(oew.seen) <= MaxSeenIds
  /\ oew.seen = Range(oew.order)

\* cursor a is undefined or not later than cursor b.
CursorLeq(a, b) == a = None \/ (b # None /\ a[1] <= b[1])

\* C13: the part of a tick of OuterEventWatcher that runs once its fetch
\* has settled never lowers lastTimestamp, whatever the batch holds.
C13_TickNeverLowersCursor ==
  [][oew'.fetching < oew.fetching
       => CursorLeq(oew.lastTimestamp, oew'.lastTimestamp)]_vars

\* An event older than the cursor was emitted, and the cursor stayed.
C13_Witness ==
  /\ oewObs.emitted # <<>>
  /\ oew.lastTimestamp # None
  /\ TsOf(oewObs.emitted[Len(oewObs.emitted)]) < oew.lastTimestamp[1]

\* C14: at every moment at most concurrency fetchBalance calls of
\* BalanceWatcher are in progress.
C14_FetchesWithinConcurrency == Cardinality(bw.active) <= Concurrency

\* Two runs overlap, the limiter is full and holds a task back.
C14_Witness ==
  /\ Cardinality(RunsInProgress(bw)) > 1
  /\ Cardinality(bw.active) = Concurrency
  /\ bw.queue # <<>>

\* C15: two pollOnce runs of BalanceWatcher are never in progress at once.
C15_NoOverlappingRuns == Cardinality(RunsInProgress(bw)) <= 1

\* C16: a listener that throws during an "event" emission of
\* OuterEventWatcher does not keep the rest of the batch from being
\* processed in the same tick.
C16_ThrowingListenerKeepsBatch == ~oewObs.cutShort

C18_BatchEmittedAscending == ~twObs.outOfOrder

\* C19: with skipBackfillOnFirstRun, once start() has set the cursor to the
\* current time no event with an earlier timestamp is emitted.
C19_NoEventBeforeInitialCursor ==
  oewObs.initialCursor # None =>
    \A i \in DOMAIN oewObs.emitted :
       TsOf(oewObs.emitted[i]) >= oewObs.initialCursor[1]

\* C20: while OuterEventWatcher is running no step (so no reset() call)
\* clears the ids it holds or unsets its cursor.
C20_ResetOnlyWhenIdle ==
  [][oew.isRunning
       => /\ (oew'.order = <<>> => oew.order = <<>>)
          /\ (oew'.seen = {} => oew.seen = {})
          /\ (oew'.lastTimestamp = None => oew.lastTimestamp = None)]_vars

(***************************************************************************)
(* Claims about the lifecycle and the per-address state of                  *)
(* TransactionWatcher.                                                      *)
(***************************************************************************)
\* C21: an address that is not watched (never added, or removed and not
\* added again) has no entry in the seen map, also when a tick was awaiting
\* its fetch at the time removeAddress was called.
C21_RemovedAddressHasNoState ==
  \A a \in Addrs : a \notin Range(tw.addresses) => tw.seen[a] = None

\* C23: no TransactionWatcher polls with an interval shorter than 1000 ms
\* (an option below 1000 makes the constructor throw, so no such instance
\* exists to be started).
C23_NoPollingBelowFloor == tw.intervalId => tw.pollIntervalMs >= 1000

\* C24: a start(addresses, onTx) call on a running watcher leaves the number
\* of "tx" listeners as it was, so that onTx runs once per "tx" event.
C24_StartWhileRunningAddsNoListener ==
  [][tw.intervalId /\ tw'.intervalId => tw'.txListeners = tw.txListeners]_vars

\* C25: the started/stopped events received begin with "started" and
\* alternate: no two consecutive events are the same.
C25_LifecycleAlternates ==
  twObs.lifecycle # None =>
    LET l == twObs.lifecycle[1] IN
    /\ (l # <<>> => l[1] = "started")
    /\ \A k \in 1..(Len(l) - 1) : l[k] # l[k + 1]

\* C28: failures do not end the polling of a started watcher: every tick
\* that starts finishes and lowers ticking, whether its fetches succeeded or
\* failed, the timer stays armed, and a later fire starts a new tick (the
\* watcher is ticking again).
C28_FailuresNeverEndPolling ==
  /\ (tw.ticking ~> (~tw.ticking /\ tw.ticks = <<>>))
  /\ [][tw.intervalId => tw'.intervalId]_vars
  /\ ((tw.intervalId /\ ~tw.ticking) ~> tw.ticking)

\* C30: markSeen keeps at most maxSeenPerAddress hashes per address, the set
\* and the order list holding the same hashes, and evicts first in, first
\* out: a call on a full entry removes exactly the hash marked earliest,
\* from the set and from the list, and every other hash stays.
C30_FifoEviction ==
  /\ \A a \in Addrs :
       LET s == ms.seen[a] IN
       /\ Len(s.order) <= MSMax
       /\ Range(s.order) = s.set
       /\ Cardinality(s.set) = Len(s.order)
  /\ ms.last # None =>
       LET before == ms.last[1].before
           hash == ms.last[1].hash
           after == ms.seen[ms.last[1].addr]
       IN IF Len(before.order) = MSMax
          THEN /\ after.order = Append(Tail(before.order), hash)
               /\ after.set = (before.set \ {Head(before.order)}) \cup {hash}
          ELSE /\ after.order = Append(before.order, hash)
               /\ after.set = before.set \cup {hash}

\* The latest call marked a hash on a full entry that held at least two.
C30_Witness ==
  /\ ms.last # None
  /\ Len(ms.last[1].before.order) = MSMax
  /\ MSMax >= 2
  /\ Len(ms.seen[ms.last[1].addr].order) = MSMax

\* C26: the delay WebhookSendout.computeDelay returns never exceeds
\* maxBackoffMs, with jitter on or off, from Retry-After or from the
\* backoff formula.
C26_DelayWithinMaxBackoff == ws.delay <= ws.maxBackoffMs

(***************************************************************************)
(* Claims about BalanceWatcher (src/watchers/BalanceWatcher.ts) and         *)
(* BalanceTracker.                                                          *)
(***************************************************************************)
\* C22: after stop() returned, and until start is called again, none of the
\* instance's interval timers is armed.
C22_StopDisarmsEveryTimer ==
  sbw.intervalId = None =>
    \A h \in DOMAIN sbw.timers : ~sbw.timers[h].armed

\* C29: with one address whose getBalance always fails, no poll() ends
\* leaving a subscribed address that does not fail unfetched, whatever the
\* iteration order.
C29_SucceedingAddressPolledEveryPoll ==
  btObs.unvisited \subseteq btObs.failing

(***************************************************************************)
(* Claims about TokenBirthWatcher.                                          *)
(***************************************************************************)
\* C31: 'birth' is emitted at most once per transaction signature, over
\* polls that overlap, polls that fail part-way and signatures of a slot
\* above the one getSlot returned.
C31_OneBirthPerSignature ==
  \A s \in 1..MaxSlot : tbwObs.births[s] <= 1

(***************************************************************************)
(* Claims about PriceWatcher.                                               *)
(***************************************************************************)
\* C32: after start(onAlert) with thresholdPct > 0, every fetched price that
\* differs from the price fetched before it for the same symbol by
\* thresholdPct percent or more is reported to onAlert with the two prices.
C32_EveryLargeChangeAlerts == ~pwObs.missed

(***************************************************************************)
(* Claims about BalanceService.                                             *)
(***************************************************************************)
BSChainsOf(address) == {i \in DOMAIN bs.chains : bs.chains[i].address = address}

\* C33: at any time at most one fetchWithRetries chain per address is in
\* progress, and every getBalance call that is waiting for an address
\* awaits the promise of that one chain.
C33_OneChainPerAddress ==
  \A address \in Addrs :
    /\ Cardinality(BSChainsOf(address)) <= 1
    /\ \A c \in DOMAIN bs.callers :
         bs.callers[c].address = address =>
           \E i \in BSChainsOf(address) :
             /\ bs.chains[i].id = bs.callers[c].promise
             /\ bs.inFlight[address] = Some(bs.chains[i].id)

\* C33's case: two callers wait for the one chain of an address.
C33_Witness ==
  \E i \in DOMAIN bs.chains :
    Cardinality({c \in DOMAIN bs.callers :
                   bs.callers[c].promise = bs.chains[i].id}) >= 2

\* C34: a chain rejects only after retries + 1 failed attempts and with the
\* error of the last one; the steps by which it rejects and settles leave
\* the cache as it was and remove the address's in-flight entry; and a
\* getBalance for that address right after it starts a new chain at
\* attempt 1.
C34_FailedFetchLeavesNoTrace ==
  /\ [](\A i \in DOMAIN bs.chains :
          LET chain == bs.chains[i] IN
          (chain.result # None /\ chain.result[1].rejected) =>
             /\ chain.attempt = bs.retries + 1
             /\ chain.result[1].value = chain.lastErr[1])
  /\ [][(bsObs'.settled # None /\ bsObs'.settled[1].rejected) =>
          /\ bs'.cache = bs.cache
          /\ bs'.inFlight[bsObs'.settled[1].address] = None
          /\ bsObs'.settled[1].attempts = bs.retries + 1
          /\ bsObs'.settled[1].value = bsObs'.settled[1].lastErr[1]]_vars
  /\ [][\A i \in DOMAIN bs.chains :
          (bs.chains[i].pc = "fetch" /\ bs'.chains # bs.chains
           /\ Len(bs'.chains) = Len(bs.chains)
           /\ bs'.chains[i].result # None /\ bs'.chains[i].result[1].rejected)
            => bs'.cache = bs.cache]_vars
  /\ [][(/\ bsObs.settled # None
         /\ bsObs.settled[1].rejected
         /\ Len(bs'.callers) = Len(bs.callers) + 1
         /\ bs'.callers[Len(bs'.callers)].address = bsObs.settled[1].address)
          => /\ Len(bs'.chains) = Len(bs.chains) + 1
             /\ bs'.chains[Len(bs'.chains)].address = bsObs.settled[1].address
             /\ bs'.chains[Len(bs'.chains)].attempt = 1]_vars

\* C34's case: a chain has rejected after more than one attempt and
\* settled, with a caller awaiting it.
C34_Witness ==
  /\ bsObs.settled # None
  /\ bsObs.settled[1].rejected
  /\ bsObs.settled[1].attempts > 1
  /\ bsObs.settled[1].receivers >= 1

(***************************************************************************)
(* Claims about AlertManager.                                               *)
(***************************************************************************)
\* C35: over addRule, updateRule, upsertRule and handleAlert without force,
\* any two alerts of one normalized symbol for which handleAlert returned
\* true have timestamps at least cooldownMs apart.
C35_FiredAlertsCooldownApart == ~amObs.tooClose

(***************************************************************************)
(* Claims about MetricsCache.                                               *)
(***************************************************************************)
MCAscending(list) ==
  \A i, j \in DOMAIN list : i < j => list[i].timestamp <= list[j].timestamp

\* C36: after add and after addMany the series of every key the call
\* touched is in ascending timestamp order and has at most maxPerKey
\* entries, and the store holds no key with an empty series.
C36_TouchedSeriesSortedAndCapped ==
  mcObs.touched # {} =>
    /\ \A key \in mcObs.touched :
         mc.store[key] # None =>
           /\ MCAscending(mc.store[key][1])
           /\ Len(mc.store[key][1]) <= mc.maxPerKey
    /\ \A key \in MCKeys : mc.store[key] # Some(<<>>)

\* C36's case: an insert has touched both keys and left one of them with a
\* full series of more than one entry with different timestamps.
C36_Witness ==
  /\ mcObs.touched = MCKeys
  /\ \E key \in MCKeys :
       /\ mc.store[key] # None
       /\ Len(mc.store[key][1]) = mc.maxPerKey
       /\ Len(mc.store[key][1]) > 1
       /\ mc.store[key][1][1].timestamp < mc.store[key][1][2].timestamp

(***************************************************************************)
(* Claims about BalanceWatcher.setAddresses (options variant).              *)
(***************************************************************************)
\* C37: once setAddresses was called, the keys of lastBalances are the
\* watched addresses, also while and after poll tasks that were in flight
\* at the call complete.
C37_KeysAreWatchedAddresses ==
  bw.addresses # <<>> =>
    {a \in BalKeys : bw.lastBalances[a] # None} = Range(bw.addresses)

(***************************************************************************)
(* Claims about OuterEventWatcher under start/stop cycles.                  *)
(***************************************************************************)
\* C38: after any number of start(onEvent) / stop() cycles with the same
\* callback, an event that is emitted calls onEvent exactly once.
C38_OnEventCalledOncePerEvent ==
  oewObs.invoked # None => oewObs.invoked[1] = 1

(***************************************************************************)
(* Claims about AgentCore.runWithMeta.                                      *)
(***************************************************************************)
\* C39: for a registered action, and whatever listeners are registered,
\* runWithMeta does not reject when the action threw, failed or timed out.
C39_FailureResolves ==
  ac.settled # None => ~ac.settled[1].rejected

\* C40: in a call with retries and timeoutMs at most one execution of the
\* action is in progress at any time, and attempts stays within
\* retries + 1.
C40_OneExecutionAtATime ==
  (ac.hasTimeout /\ ac.retries > 0) =>
    /\ Len(ac.execs) <= 1
    /\ ac.attempts <= ac.retries + 1

================================================================
